---- MODULE Spec2Model ----
(***************************************************************************)
(* State-machine model of the interview session engine of the two          *)
(* AIInterviewBot variants: src/Interviewer2.py (the text variant) and     *)
(* src/InterviewerSpeech.py (the speech variant).                          *)
(*                                                                         *)
(* A Python str is a sequence of code points.  The model keeps it packed   *)
(* as << run, code, run, ..., code, run >>: a run is a TLA+ string of the  *)
(* characters U+0020 to U+007E but U+0060 (possibly none), a code is the   *)
(* number of any other code point.  The str 'end' followed by U+2003 is    *)
(* << "end", 8195, "" >>, the empty str is << "" >>, T("end") is           *)
(* << "end" >>.  A JSON / Python value is a tagged record:                 *)
(*   [t |-> "null"], [t |-> "num", n |-> 8], [t |-> "str", s |-> text],    *)
(*   [t |-> "list", items |-> <<values>>], [t |-> "obj", f |-> [k |-> v]]. *)
(* The program blocks on exactly one external event at a time (a backend   *)
(* call or a read of user input); pc names the read the session waits at.  *)
(***************************************************************************)
EXTENDS Integers, Sequences, FiniteSets, TLC

\* ------------------------------------------------------------------ bounds

\* random.choice / random.randint draw one of the first RandWidth outcomes.
RandWidth == 2
\* Reads at the answer prompt, other than 'end', explored per session under
\* Spec (the loop itself allows 10 / 12 counted questions and any number of
\* reads that do not count).
MaxReads == 3
\* Departures from the plain run explored per session under Spec: a backend
\* reply that is not well-formed, a non-zero random draw, an input that is
\* neither a plain answer nor 'next' nor 'end', 'n' at the ready prompt,
\* speech input turned on, a session file that cannot be written.
MaxOdd == 1
\* Under FullSpec the random source is free during the first FreeTurns turns
\* and draws its first outcome afterwards.
FreeTurns == 2

\* ------------------------------------------------------- program constants

\* max_questions of Interviewer2.conduct_interview
MaxQuestionsText == 10
\* max_questions of InterviewerSpeech.conduct_interview
MaxQuestionsSpeech == 12
\* minimum length of a backend question (Interviewer2.generate_question)
MinQuestionLen == 10
\* minimum length of an answer (InterviewerSpeech.conduct_interview)
MinAnswerLen == 5
\* questions[:5]: entries reused once the category bank is exhausted
ResetSlice == 5

\* ------------------------------------------------------------------ texts

\* the characters a run holds, in code point order: U+0020 to U+007E
\* without U+0060, which is kept as a code like every other code point
Ascii ==
    " !\"#$%&'()*+,-./0123456789:;<=>?@ABCDEFGHIJKLMNOPQRSTUVWXYZ[\\]^_abcdefghijklmnopqrstuvwxyz{|}~"

Char(s, i) == SubSeq(s, i, i)

\* ord(c) of the i-th character of Ascii
AsciiCode(i) == IF i <= 64 THEN 31 + i ELSE 32 + i

\* ord(c) of a character of a run
CodeOf ==
    [c \in {Char(Ascii, i) : i \in 1..Len(Ascii)} |->
        AsciiCode(CHOOSE i \in 1..Len(Ascii) : Char(Ascii, i) = c)]

\* chr(c) of a code point a run holds
CharOf == [c \in {AsciiCode(i) : i \in 1..Len(Ascii)} |->
              Char(Ascii, IF c <= 95 THEN c - 31 ELSE c - 32)]

\* a str of characters a run can hold, written as a TLA+ string
T(s) == <<s>>

\* the code points of a run
RunCodes(s) == [i \in 1..Len(s) |-> CodeOf[Char(s, i)]]

\* the code points of a text
RECURSIVE Unpack(_)
Unpack(text) ==
    IF Len(text) = 1 THEN RunCodes(text[1])
    ELSE RunCodes(text[1]) \o <<text[2]>> \o Unpack(SubSeq(text, 3, Len(text)))

\* the text of a sequence of code points
RECURSIVE PackOnto(_, _)
PackOnto(text, codes) ==
    IF codes = <<>> THEN text
    ELSE LET c == Head(codes)
             n == Len(text)
         IN IF c \in DOMAIN CharOf
            THEN PackOnto([text EXCEPT ![n] = @ \o CharOf[c]], Tail(codes))
            ELSE PackOnto(text \o <<c, "">>, Tail(codes))

Pack(codes) == PackOnto(<<"">>, codes)

\* len(text)
RECURSIVE TextLen(_)
TextLen(text) ==
    IF Len(text) = 1 THEN Len(text[1])
    ELSE Len(text[1]) + 1 + TextLen(SubSeq(text, 3, Len(text)))

\* text[a:b], counting code points from 1 and with both ends included
RECURSIVE Slice(_, _, _)
Slice(text, a, b) ==
    LET n == Len(text[1])
    IN IF Len(text) = 1 \/ b <= n THEN <<SubSeq(text[1], a, b)>>
       ELSE IF a > n + 1
       THEN Slice(SubSeq(text, 3, Len(text)), a - n - 1, b - n - 1)
       ELSE <<SubSeq(text[1], a, n), text[2]>>
                \o Slice(SubSeq(text, 3, Len(text)), 1, b - n - 1)

\* the code points str.strip() removes: those str.isspace() holds for
Whitespace ==
    {9, 10, 11, 12, 13, 28, 29, 30, 31, 32, 133, 160, 5760}
        \cup (8192..8202) \cup {8232, 8233, 8239, 8287, 12288}

\* text[0] and text[-1] of a text that is not empty
First(text) == IF text[1] # "" THEN CodeOf[Char(text[1], 1)] ELSE text[2]
Last(text) ==
    LET run == text[Len(text)]
    IN IF run # "" THEN CodeOf[Char(run, Len(run))] ELSE text[Len(text) - 1]

\* text[1:] and text[:-1] of a text that is not empty
DropFirst(text) ==
    IF text[1] # "" THEN [text EXCEPT ![1] = SubSeq(@, 2, Len(@))]
    ELSE SubSeq(text, 3, Len(text))
DropLast(text) ==
    IF text[Len(text)] # "" THEN [text EXCEPT ![Len(text)] = SubSeq(@, 1, Len(@) - 1)]
    ELSE SubSeq(text, 1, Len(text) - 2)

RECURSIVE LStrip(_, _)
LStrip(text, chars) ==
    IF text # T("") /\ First(text) \in chars
    THEN LStrip(DropFirst(text), chars)
    ELSE text

RECURSIVE RStrip(_, _)
RStrip(text, chars) ==
    IF text # T("") /\ Last(text) \in chars
    THEN RStrip(DropLast(text), chars)
    ELSE text

\* str.strip(chars), chars a set of code points
StripChars(text, chars) == RStrip(LStrip(text, chars), chars)

\* str.strip()
Strip(text) == StripChars(text, Whitespace)

\* response.text.strip().strip('"').strip("'").strip()
CleanQuestion(raw) ==
    StripChars(StripChars(StripChars(StripChars(raw, Whitespace), {34}), {39}),
               Whitespace)

\* str.lower() above U+007F, one code point to one: << first, last, step,
\* offset >> lower-cases first, first + step, ..., last by adding offset
\* (CPython 3.11, Unicode 14.0)
LowerRules ==
    {<<192, 214, 1, 32>>, <<216, 222, 1, 32>>, <<256, 302, 2, 1>>,
     <<306, 310, 2, 1>>, <<313, 327, 2, 1>>, <<330, 374, 2, 1>>,
     <<376, 376, 1, -121>>, <<377, 381, 2, 1>>, <<385, 385, 1, 210>>,
     <<386, 388, 2, 1>>, <<390, 390, 1, 206>>, <<391, 391, 1, 1>>,
     <<393, 394, 1, 205>>, <<395, 395, 1, 1>>, <<398, 398, 1, 79>>,
     <<399, 399, 1, 202>>, <<400, 400, 1, 203>>, <<401, 401, 1, 1>>,
     <<403, 403, 1, 205>>, <<404, 404, 1, 207>>, <<406, 406, 1, 211>>,
     <<407, 407, 1, 209>>, <<408, 408, 1, 1>>, <<412, 412, 1, 211>>,
     <<413, 413, 1, 213>>, <<415, 415, 1, 214>>, <<416, 420, 2, 1>>,
     <<422, 422, 1, 218>>, <<423, 423, 1, 1>>, <<425, 425, 1, 218>>,
     <<428, 428, 1, 1>>, <<430, 430, 1, 218>>, <<431, 431, 1, 1>>,
     <<433, 434, 1, 217>>, <<435, 437, 2, 1>>, <<439, 439, 1, 219>>,
     <<440, 440, 1, 1>>, <<444, 444, 1, 1>>, <<452, 452, 1, 2>>,
     <<453, 453, 1, 1>>, <<455, 455, 1, 2>>, <<456, 456, 1, 1>>,
     <<458, 458, 1, 2>>, <<459, 475, 2, 1>>, <<478, 494, 2, 1>>,
     <<497, 497, 1, 2>>, <<498, 500, 2, 1>>, <<502, 502, 1, -97>>,
     <<503, 503, 1, -56>>, <<504, 542, 2, 1>>, <<544, 544, 1, -130>>,
     <<546, 562, 2, 1>>, <<570, 570, 1, 10795>>, <<571, 571, 1, 1>>,
     <<573, 573, 1, -163>>, <<574, 574, 1, 10792>>, <<577, 577, 1, 1>>,
     <<579, 579, 1, -195>>, <<580, 580, 1, 69>>, <<581, 581, 1, 71>>,
     <<582, 590, 2, 1>>, <<880, 882, 2, 1>>, <<886, 886, 1, 1>>,
     <<895, 895, 1, 116>>, <<902, 902, 1, 38>>, <<904, 906, 1, 37>>,
     <<908, 908, 1, 64>>, <<910, 911, 1, 63>>, <<913, 929, 1, 32>>,
     <<931, 939, 1, 32>>, <<975, 975, 1, 8>>, <<984, 1006, 2, 1>>,
     <<1012, 1012, 1, -60>>, <<1015, 1015, 1, 1>>, <<1017, 1017, 1, -7>>,
     <<1018, 1018, 1, 1>>, <<1021, 1023, 1, -130>>, <<1024, 1039, 1, 80>>,
     <<1040, 1071, 1, 32>>, <<1120, 1152, 2, 1>>, <<1162, 1214, 2, 1>>,
     <<1216, 1216, 1, 15>>, <<1217, 1229, 2, 1>>, <<1232, 1326, 2, 1>>,
     <<1329, 1366, 1, 48>>, <<4256, 4293, 1, 7264>>, <<4295, 4295, 1, 7264>>,
     <<4301, 4301, 1, 7264>>, <<5024, 5103, 1, 38864>>, <<5104, 5109, 1, 8>>,
     <<7312, 7354, 1, -3008>>, <<7357, 7359, 1, -3008>>, <<7680, 7828, 2, 1>>,
     <<7838, 7838, 1, -7615>>, <<7840, 7934, 2, 1>>, <<7944, 7951, 1, -8>>,
     <<7960, 7965, 1, -8>>, <<7976, 7983, 1, -8>>, <<7992, 7999, 1, -8>>,
     <<8008, 8013, 1, -8>>, <<8025, 8031, 2, -8>>, <<8040, 8047, 1, -8>>,
     <<8072, 8079, 1, -8>>, <<8088, 8095, 1, -8>>, <<8104, 8111, 1, -8>>,
     <<8120, 8121, 1, -8>>, <<8122, 8123, 1, -74>>, <<8124, 8124, 1, -9>>,
     <<8136, 8139, 1, -86>>, <<8140, 8140, 1, -9>>, <<8152, 8153, 1, -8>>,
     <<8154, 8155, 1, -100>>, <<8168, 8169, 1, -8>>, <<8170, 8171, 1, -112>>,
     <<8172, 8172, 1, -7>>, <<8184, 8185, 1, -128>>, <<8186, 8187, 1, -126>>,
     <<8188, 8188, 1, -9>>, <<8486, 8486, 1, -7517>>,
     <<8490, 8490, 1, -8383>>, <<8491, 8491, 1, -8262>>,
     <<8498, 8498, 1, 28>>, <<8544, 8559, 1, 16>>, <<8579, 8579, 1, 1>>,
     <<9398, 9423, 1, 26>>, <<11264, 11311, 1, 48>>, <<11360, 11360, 1, 1>>,
     <<11362, 11362, 1, -10743>>, <<11363, 11363, 1, -3814>>,
     <<11364, 11364, 1, -10727>>, <<11367, 11371, 2, 1>>,
     <<11373, 11373, 1, -10780>>, <<11374, 11374, 1, -10749>>,
     <<11375, 11375, 1, -10783>>, <<11376, 11376, 1, -10782>>,
     <<11378, 11378, 1, 1>>, <<11381, 11381, 1, 1>>,
     <<11390, 11391, 1, -10815>>, <<11392, 11490, 2, 1>>,
     <<11499, 11501, 2, 1>>, <<11506, 11506, 1, 1>>, <<42560, 42604, 2, 1>>,
     <<42624, 42650, 2, 1>>, <<42786, 42798, 2, 1>>, <<42802, 42862, 2, 1>>,
     <<42873, 42875, 2, 1>>, <<42877, 42877, 1, -35332>>,
     <<42878, 42886, 2, 1>>, <<42891, 42891, 1, 1>>,
     <<42893, 42893, 1, -42280>>, <<42896, 42898, 2, 1>>,
     <<42902, 42920, 2, 1>>, <<42922, 42922, 1, -42308>>,
     <<42923, 42923, 1, -42319>>, <<42924, 42924, 1, -42315>>,
     <<42925, 42925, 1, -42305>>, <<42926, 42926, 1, -42308>>,
     <<42928, 42928, 1, -42258>>, <<42929, 42929, 1, -42282>>,
     <<42930, 42930, 1, -42261>>, <<42931, 42931, 1, 928>>,
     <<42932, 42946, 2, 1>>, <<42948, 42948, 1, -48>>,
     <<42949, 42949, 1, -42307>>, <<42950, 42950, 1, -35384>>,
     <<42951, 42953, 2, 1>>, <<42960, 42960, 1, 1>>, <<42966, 42968, 2, 1>>,
     <<42997, 42997, 1, 1>>, <<65313, 65338, 1, 32>>, <<66560, 66599, 1, 40>>,
     <<66736, 66771, 1, 40>>, <<66928, 66964, 2, 39>>,
     <<66929, 66937, 2, 39>>, <<66941, 66953, 2, 39>>,
     <<66957, 66961, 2, 39>>, <<66965, 66965, 1, 39>>,
     <<68736, 68786, 1, 64>>, <<71840, 71871, 1, 32>>,
     <<93760, 93791, 1, 32>>, <<125184, 125217, 1, 34>>}

\* the case-ignorable code points, as ranges << first, last >>
CaseIgnorable ==
    {<<39, 39>>, <<46, 46>>, <<58, 58>>, <<94, 94>>, <<96, 96>>, <<168, 168>>,
     <<173, 173>>, <<175, 175>>, <<180, 180>>, <<183, 184>>, <<688, 879>>,
     <<884, 885>>, <<890, 890>>, <<900, 901>>, <<903, 903>>, <<1155, 1161>>,
     <<1369, 1369>>, <<1375, 1375>>, <<1425, 1469>>, <<1471, 1471>>,
     <<1473, 1474>>, <<1476, 1477>>, <<1479, 1479>>, <<1524, 1524>>,
     <<1536, 1541>>, <<1552, 1562>>, <<1564, 1564>>, <<1600, 1600>>,
     <<1611, 1631>>, <<1648, 1648>>, <<1750, 1757>>, <<1759, 1768>>,
     <<1770, 1773>>, <<1807, 1807>>, <<1809, 1809>>, <<1840, 1866>>,
     <<1958, 1968>>, <<2027, 2037>>, <<2042, 2042>>, <<2045, 2045>>,
     <<2070, 2093>>, <<2137, 2139>>, <<2184, 2184>>, <<2192, 2193>>,
     <<2200, 2207>>, <<2249, 2306>>, <<2362, 2362>>, <<2364, 2364>>,
     <<2369, 2376>>, <<2381, 2381>>, <<2385, 2391>>, <<2402, 2403>>,
     <<2417, 2417>>, <<2433, 2433>>, <<2492, 2492>>, <<2497, 2500>>,
     <<2509, 2509>>, <<2530, 2531>>, <<2558, 2558>>, <<2561, 2562>>,
     <<2620, 2620>>, <<2625, 2626>>, <<2631, 2632>>, <<2635, 2637>>,
     <<2641, 2641>>, <<2672, 2673>>, <<2677, 2677>>, <<2689, 2690>>,
     <<2748, 2748>>, <<2753, 2757>>, <<2759, 2760>>, <<2765, 2765>>,
     <<2786, 2787>>, <<2810, 2815>>, <<2817, 2817>>, <<2876, 2876>>,
     <<2879, 2879>>, <<2881, 2884>>, <<2893, 2893>>, <<2901, 2902>>,
     <<2914, 2915>>, <<2946, 2946>>, <<3008, 3008>>, <<3021, 3021>>,
     <<3072, 3072>>, <<3076, 3076>>, <<3132, 3132>>, <<3134, 3136>>,
     <<3142, 3144>>, <<3146, 3149>>, <<3157, 3158>>, <<3170, 3171>>,
     <<3201, 3201>>, <<3260, 3260>>, <<3263, 3263>>, <<3270, 3270>>,
     <<3276, 3277>>, <<3298, 3299>>, <<3328, 3329>>, <<3387, 3388>>,
     <<3393, 3396>>, <<3405, 3405>>, <<3426, 3427>>, <<3457, 3457>>,
     <<3530, 3530>>, <<3538, 3540>>, <<3542, 3542>>, <<3633, 3633>>,
     <<3636, 3642>>, <<3654, 3662>>, <<3761, 3761>>, <<3764, 3772>>,
     <<3782, 3782>>, <<3784, 3789>>, <<3864, 3865>>, <<3893, 3893>>,
     <<3895, 3895>>, <<3897, 3897>>, <<3953, 3966>>, <<3968, 3972>>,
     <<3974, 3975>>, <<3981, 3991>>, <<3993, 4028>>, <<4038, 4038>>,
     <<4141, 4144>>, <<4146, 4151>>, <<4153, 4154>>, <<4157, 4158>>,
     <<4184, 4185>>, <<4190, 4192>>, <<4209, 4212>>, <<4226, 4226>>,
     <<4229, 4230>>, <<4237, 4237>>, <<4253, 4253>>, <<4348, 4348>>,
     <<4957, 4959>>, <<5906, 5908>>, <<5938, 5939>>, <<5970, 5971>>,
     <<6002, 6003>>, <<6068, 6069>>, <<6071, 6077>>, <<6086, 6086>>,
     <<6089, 6099>>, <<6103, 6103>>, <<6109, 6109>>, <<6155, 6159>>,
     <<6211, 6211>>, <<6277, 6278>>, <<6313, 6313>>, <<6432, 6434>>,
     <<6439, 6440>>, <<6450, 6450>>, <<6457, 6459>>, <<6679, 6680>>,
     <<6683, 6683>>, <<6742, 6742>>, <<6744, 6750>>, <<6752, 6752>>,
     <<6754, 6754>>, <<6757, 6764>>, <<6771, 6780>>, <<6783, 6783>>,
     <<6823, 6823>>, <<6832, 6862>>, <<6912, 6915>>, <<6964, 6964>>,
     <<6966, 6970>>, <<6972, 6972>>, <<6978, 6978>>, <<7019, 7027>>,
     <<7040, 7041>>, <<7074, 7077>>, <<7080, 7081>>, <<7083, 7085>>,
     <<7142, 7142>>, <<7144, 7145>>, <<7149, 7149>>, <<7151, 7153>>,
     <<7212, 7219>>, <<7222, 7223>>, <<7288, 7293>>, <<7376, 7378>>,
     <<7380, 7392>>, <<7394, 7400>>, <<7405, 7405>>, <<7412, 7412>>,
     <<7416, 7417>>, <<7468, 7530>>, <<7544, 7544>>, <<7579, 7679>>,
     <<8125, 8125>>, <<8127, 8129>>, <<8141, 8143>>, <<8157, 8159>>,
     <<8173, 8175>>, <<8189, 8190>>, <<8203, 8207>>, <<8216, 8217>>,
     <<8228, 8228>>, <<8231, 8231>>, <<8234, 8238>>, <<8288, 8292>>,
     <<8294, 8303>>, <<8305, 8305>>, <<8319, 8319>>, <<8336, 8348>>,
     <<8400, 8432>>, <<11388, 11389>>, <<11503, 11505>>, <<11631, 11631>>,
     <<11647, 11647>>, <<11744, 11775>>, <<11823, 11823>>, <<12293, 12293>>,
     <<12330, 12333>>, <<12337, 12341>>, <<12347, 12347>>, <<12441, 12446>>,
     <<12540, 12542>>, <<40981, 40981>>, <<42232, 42237>>, <<42508, 42508>>,
     <<42607, 42610>>, <<42612, 42621>>, <<42623, 42623>>, <<42652, 42655>>,
     <<42736, 42737>>, <<42752, 42785>>, <<42864, 42864>>, <<42888, 42890>>,
     <<42994, 42996>>, <<43000, 43001>>, <<43010, 43010>>, <<43014, 43014>>,
     <<43019, 43019>>, <<43045, 43046>>, <<43052, 43052>>, <<43204, 43205>>,
     <<43232, 43249>>, <<43263, 43263>>, <<43302, 43309>>, <<43335, 43345>>,
     <<43392, 43394>>, <<43443, 43443>>, <<43446, 43449>>, <<43452, 43453>>,
     <<43471, 43471>>, <<43493, 43494>>, <<43561, 43566>>, <<43569, 43570>>,
     <<43573, 43574>>, <<43587, 43587>>, <<43596, 43596>>, <<43632, 43632>>,
     <<43644, 43644>>, <<43696, 43696>>, <<43698, 43700>>, <<43703, 43704>>,
     <<43710, 43711>>, <<43713, 43713>>, <<43741, 43741>>, <<43756, 43757>>,
     <<43763, 43764>>, <<43766, 43766>>, <<43867, 43871>>, <<43881, 43883>>,
     <<44005, 44005>>, <<44008, 44008>>, <<44013, 44013>>, <<64286, 64286>>,
     <<64434, 64450>>, <<65024, 65039>>, <<65043, 65043>>, <<65056, 65071>>,
     <<65106, 65106>>, <<65109, 65109>>, <<65279, 65279>>, <<65287, 65287>>,
     <<65294, 65294>>, <<65306, 65306>>, <<65342, 65342>>, <<65344, 65344>>,
     <<65392, 65392>>, <<65438, 65439>>, <<65507, 65507>>, <<65529, 65531>>,
     <<66045, 66045>>, <<66272, 66272>>, <<66422, 66426>>, <<67456, 67461>>,
     <<67463, 67504>>, <<67506, 67514>>, <<68097, 68099>>, <<68101, 68102>>,
     <<68108, 68111>>, <<68152, 68154>>, <<68159, 68159>>, <<68325, 68326>>,
     <<68900, 68903>>, <<69291, 69292>>, <<69446, 69456>>, <<69506, 69509>>,
     <<69633, 69633>>, <<69688, 69702>>, <<69744, 69744>>, <<69747, 69748>>,
     <<69759, 69761>>, <<69811, 69814>>, <<69817, 69818>>, <<69821, 69821>>,
     <<69826, 69826>>, <<69837, 69837>>, <<69888, 69890>>, <<69927, 69931>>,
     <<69933, 69940>>, <<70003, 70003>>, <<70016, 70017>>, <<70070, 70078>>,
     <<70089, 70092>>, <<70095, 70095>>, <<70191, 70193>>, <<70196, 70196>>,
     <<70198, 70199>>, <<70206, 70206>>, <<70367, 70367>>, <<70371, 70378>>,
     <<70400, 70401>>, <<70459, 70460>>, <<70464, 70464>>, <<70502, 70508>>,
     <<70512, 70516>>, <<70712, 70719>>, <<70722, 70724>>, <<70726, 70726>>,
     <<70750, 70750>>, <<70835, 70840>>, <<70842, 70842>>, <<70847, 70848>>,
     <<70850, 70851>>, <<71090, 71093>>, <<71100, 71101>>, <<71103, 71104>>,
     <<71132, 71133>>, <<71219, 71226>>, <<71229, 71229>>, <<71231, 71232>>,
     <<71339, 71339>>, <<71341, 71341>>, <<71344, 71349>>, <<71351, 71351>>,
     <<71453, 71455>>, <<71458, 71461>>, <<71463, 71467>>, <<71727, 71735>>,
     <<71737, 71738>>, <<71995, 71996>>, <<71998, 71998>>, <<72003, 72003>>,
     <<72148, 72151>>, <<72154, 72155>>, <<72160, 72160>>, <<72193, 72202>>,
     <<72243, 72248>>, <<72251, 72254>>, <<72263, 72263>>, <<72273, 72278>>,
     <<72281, 72283>>, <<72330, 72342>>, <<72344, 72345>>, <<72752, 72758>>,
     <<72760, 72765>>, <<72767, 72767>>, <<72850, 72871>>, <<72874, 72880>>,
     <<72882, 72883>>, <<72885, 72886>>, <<73009, 73014>>, <<73018, 73018>>,
     <<73020, 73021>>, <<73023, 73029>>, <<73031, 73031>>, <<73104, 73105>>,
     <<73109, 73109>>, <<73111, 73111>>, <<73459, 73460>>, <<78896, 78904>>,
     <<92912, 92916>>, <<92976, 92982>>, <<92992, 92995>>, <<94031, 94031>>,
     <<94095, 94111>>, <<94176, 94177>>, <<94179, 94180>>, <<110576, 110579>>,
     <<110581, 110587>>, <<110589, 110590>>, <<113821, 113822>>,
     <<113824, 113827>>, <<118528, 118573>>, <<118576, 118598>>,
     <<119143, 119145>>, <<119155, 119170>>, <<119173, 119179>>,
     <<119210, 119213>>, <<119362, 119364>>, <<121344, 121398>>,
     <<121403, 121452>>, <<121461, 121461>>, <<121476, 121476>>,
     <<121499, 121503>>, <<121505, 121519>>, <<122880, 122886>>,
     <<122888, 122904>>, <<122907, 122913>>, <<122915, 122916>>,
     <<122918, 122922>>, <<123184, 123197>>, <<123566, 123566>>,
     <<123628, 123631>>, <<125136, 125142>>, <<125252, 125259>>,
     <<127995, 127999>>, <<917505, 917505>>, <<917536, 917631>>,
     <<917760, 917999>>}

\* the cased code points that are not case-ignorable, as ranges
CasedLetters ==
    {<<65, 90>>, <<97, 122>>, <<170, 170>>, <<181, 181>>, <<186, 186>>,
     <<192, 214>>, <<216, 246>>, <<248, 442>>, <<444, 447>>, <<452, 659>>,
     <<661, 687>>, <<880, 883>>, <<886, 887>>, <<891, 893>>, <<895, 895>>,
     <<902, 902>>, <<904, 906>>, <<908, 908>>, <<910, 929>>, <<931, 1013>>,
     <<1015, 1153>>, <<1162, 1327>>, <<1329, 1366>>, <<1376, 1416>>,
     <<4256, 4293>>, <<4295, 4295>>, <<4301, 4301>>, <<4304, 4346>>,
     <<4349, 4351>>, <<5024, 5109>>, <<5112, 5117>>, <<7296, 7304>>,
     <<7312, 7354>>, <<7357, 7359>>, <<7424, 7467>>, <<7531, 7543>>,
     <<7545, 7578>>, <<7680, 7957>>, <<7960, 7965>>, <<7968, 8005>>,
     <<8008, 8013>>, <<8016, 8023>>, <<8025, 8025>>, <<8027, 8027>>,
     <<8029, 8029>>, <<8031, 8061>>, <<8064, 8116>>, <<8118, 8124>>,
     <<8126, 8126>>, <<8130, 8132>>, <<8134, 8140>>, <<8144, 8147>>,
     <<8150, 8155>>, <<8160, 8172>>, <<8178, 8180>>, <<8182, 8188>>,
     <<8450, 8450>>, <<8455, 8455>>, <<8458, 8467>>, <<8469, 8469>>,
     <<8473, 8477>>, <<8484, 8484>>, <<8486, 8486>>, <<8488, 8488>>,
     <<8490, 8493>>, <<8495, 8500>>, <<8505, 8505>>, <<8508, 8511>>,
     <<8517, 8521>>, <<8526, 8526>>, <<8544, 8575>>, <<8579, 8580>>,
     <<9398, 9449>>, <<11264, 11387>>, <<11390, 11492>>, <<11499, 11502>>,
     <<11506, 11507>>, <<11520, 11557>>, <<11559, 11559>>, <<11565, 11565>>,
     <<42560, 42605>>, <<42624, 42651>>, <<42786, 42863>>, <<42865, 42887>>,
     <<42891, 42894>>, <<42896, 42954>>, <<42960, 42961>>, <<42963, 42963>>,
     <<42965, 42969>>, <<42997, 42998>>, <<43002, 43002>>, <<43824, 43866>>,
     <<43872, 43880>>, <<43888, 43967>>, <<64256, 64262>>, <<64275, 64279>>,
     <<65313, 65338>>, <<65345, 65370>>, <<66560, 66639>>, <<66736, 66771>>,
     <<66776, 66811>>, <<66928, 66938>>, <<66940, 66954>>, <<66956, 66962>>,
     <<66964, 66965>>, <<66967, 66977>>, <<66979, 66993>>, <<66995, 67001>>,
     <<67003, 67004>>, <<68736, 68786>>, <<68800, 68850>>, <<71840, 71903>>,
     <<93760, 93823>>, <<119808, 119892>>, <<119894, 119964>>,
     <<119966, 119967>>, <<119970, 119970>>, <<119973, 119974>>,
     <<119977, 119980>>, <<119982, 119993>>, <<119995, 119995>>,
     <<119997, 120003>>, <<120005, 120069>>, <<120071, 120074>>,
     <<120077, 120084>>, <<120086, 120092>>, <<120094, 120121>>,
     <<120123, 120126>>, <<120128, 120132>>, <<120134, 120134>>,
     <<120138, 120144>>, <<120146, 120485>>, <<120488, 120512>>,
     <<120514, 120538>>, <<120540, 120570>>, <<120572, 120596>>,
     <<120598, 120628>>, <<120630, 120654>>, <<120656, 120686>>,
     <<120688, 120712>>, <<120714, 120744>>, <<120746, 120770>>,
     <<120772, 120779>>, <<122624, 122633>>, <<122635, 122654>>,
     <<125184, 125251>>, <<127280, 127305>>, <<127312, 127337>>,
     <<127344, 127369>>}

InRanges(c, ranges) == \E r \in ranges : r[1] <= c /\ c <= r[2]

\* str.lower() of U+03A3 depends on its place: at the end of a word (a cased
\* letter before it and none after it, case-ignorable code points skipped)
\* it becomes U+03C2, elsewhere U+03C3
FinalSigma(s, i) ==
    LET before == {j \in 1..(i - 1) : ~InRanges(s[j], CaseIgnorable)}
        after == {j \in (i + 1)..Len(s) : ~InRanges(s[j], CaseIgnorable)}
        Max(S) == CHOOSE j \in S : \A k \in S : k <= j
        Min(S) == CHOOSE j \in S : \A k \in S : j <= k
    IN /\ before # {}
       /\ InRanges(s[Max(before)], CasedLetters)
       /\ after # {} => ~InRanges(s[Min(after)], CasedLetters)

\* str.lower() of one code point out of context, as code points: U+0130
\* becomes two
LowerChar(c) ==
    IF c < 128 THEN (IF c >= 65 /\ c <= 90 THEN <<c + 32>> ELSE <<c>>)
    ELSE IF c = 304 THEN <<105, 775>>
    ELSE LET hit == {r \in LowerRules :
                        r[1] <= c /\ c <= r[2] /\ (c - r[1]) % r[3] = 0}
         IN IF hit = {} THEN <<c>>
            ELSE <<c + (CHOOSE r \in hit : TRUE)[4]>>

\* str.lower(), on code points
RECURSIVE LowerFrom(_, _)
LowerFrom(s, i) ==
    IF i > Len(s) THEN <<>>
    ELSE (IF s[i] = 931 /\ FinalSigma(s, i) THEN <<962>> ELSE LowerChar(s[i]))
         \o LowerFrom(s, i + 1)

\* str.lower()
Lower(text) == Pack(LowerFrom(Unpack(text), 1))

\* ------------------------------------------------------- sequence helpers

RECURSIVE SeqToSet(_)
SeqToSet(q) == IF q = <<>> THEN {} ELSE {Head(q)} \cup SeqToSet(Tail(q))

\* [x for x in q if x not in excluded]
RECURSIVE Without(_, _)
Without(q, excluded) ==
    IF q = <<>> THEN <<>>
    ELSE IF Head(q) \in excluded
         THEN Without(Tail(q), excluded)
         ELSE <<Head(q)>> \o Without(Tail(q), excluded)

\* q[:n]
Prefix(q, n) == SubSeq(q, 1, IF Len(q) < n THEN Len(q) ELSE n)

\* q[-n:]
Suffix(q, n) == SubSeq(q, IF Len(q) < n THEN 1 ELSE Len(q) - n + 1, Len(q))

\* random.choice(q) with the draw r made explicit
Choice(q, r) == q[(r % Len(q)) + 1]

\* ---------------------------------------------------------- Python values

Null == [t |-> "null"]
Num(n) == [t |-> "num", n |-> n]
\* a str value, of a text and of a TLA+ string
StrOf(text) == [t |-> "str", s |-> text]
Str(s) == StrOf(T(s))
\* a list of any values
ListOf(values) == [t |-> "list", items |-> values]
\* a list of strings, each written as a TLA+ string
List(strings) == ListOf([i \in 1..Len(strings) |-> Str(strings[i])])
Obj(f) == [t |-> "obj", f |-> f]

\* bool(v)
Truthy(v) ==
    CASE v.t = "null" -> FALSE
      [] v.t = "num"  -> v.n # 0
      [] v.t = "str"  -> v.s # T("")
      [] v.t = "list" -> v.items # <<>>
      [] v.t = "obj"  -> DOMAIN v.f # {}

\* d.get(k, default) of a dict d
DictGet(d, k, default) == IF k \in DOMAIN d.f THEN d.f[k] ELSE default

\* whether a for loop over the value runs: lists, strings and dicts are
\* iterable, None and numbers raise TypeError
Iterable(v) == v.t \in {"list", "str", "obj"}

\* sub in s, for strings
Contains(s, sub) ==
    LET n == TextLen(sub)
    IN \E i \in 1..(TextLen(s) - n + 1) : Slice(s, i, i + n - 1) = sub

\* ------------------------------------------------------ question banks

\* fallback_questions of Interviewer2.generate_question (backend absent)
FallbackBank(type) ==
    CASE type = T("behavioral") -> <<
        T("Tell me about a time when you had to work with a difficult team member."),
        T("Describe a situation where you had to meet a tight deadline."),
        T("Give me an example of when you had to learn something new quickly."),
        T("Tell me about a time you failed and what you learned from it."),
        T("Describe a situation where you had to give difficult feedback."),
        T("Tell me about a time you had to adapt to a major change at work."),
        T("Give me an example of when you went above and beyond for a project."),
        T("Describe a time when you had to resolve a conflict between team members.") >>
      [] type = T("technical") -> <<
        T("Walk me through your approach to debugging a complex issue."),
        T("How do you stay updated with the latest technologies in your field?"),
        T("Describe a technical challenge you solved recently."),
        T("What's your process for code review and quality assurance?"),
        T("How do you approach performance optimization?"),
        T("Tell me about a time you had to learn a new technology quickly."),
        T("Describe your experience with version control and collaboration tools."),
        T("How do you handle technical debt in your projects?") >>
      [] type = T("case_study") -> <<
        T("How would you approach designing a scalable system?"),
        T("Walk me through how you would optimize a slow-performing application."),
        T("How would you handle a situation where requirements change mid-project?"),
        T("Describe your approach to data migration between systems."),
        T("How would you design a user authentication system?"),
        T("What's your strategy for handling system downtime?"),
        T("How would you approach testing a complex integration?"),
        T("Describe how you would implement a new feature with minimal risk.") >>
      [] OTHER -> <<
        T("What motivates you in your career?"),
        T("Where do you see yourself in 5 years?"),
        T("What's your greatest professional achievement?"),
        T("How do you handle stress and pressure?"),
        T("What are your career goals?"),
        T("How do you prioritize your work?"),
        T("What's the most important thing you've learned recently?"),
        T("How do you approach continuous learning?") >>

\* fallback_questions of the except branch of Interviewer2.generate_question
GenericFallbacks == <<
    T("Tell me about a time when you overcame a significant challenge."),
    T("Describe a project where you had to learn new skills quickly."),
    T("How do you handle working under pressure?"),
    T("What's your greatest professional achievement?"),
    T("Tell me about a time you had to work with a difficult team member.") >>

\* fallback_questions of InterviewerSpeech.generate_question (backend absent)
SpeechFallbacks == <<
    T("Tell me about yourself and your background."),
    T("Why are you interested in this position?"),
    T("What are your greatest strengths?"),
    T("Describe a challenging project you've worked on."),
    T("How do you handle working under pressure?"),
    T("Tell me about a time you had to work with a difficult team member."),
    T("What's your greatest accomplishment in your career so far?"),
    T("How do you stay updated with industry trends?"),
    T("Describe a time when you failed and what you learned from it."),
    T("Why are you looking to leave your current position?") >>

\* the list of the except branch of InterviewerSpeech.generate_question
SpeechErrorFallbacks == <<
    T("Tell me about a time when you overcame a significant challenge."),
    T("Describe a project you're particularly proud of."),
    T("How do you handle tight deadlines and pressure?") >>

\* interview_types.get(choice, "general") of start_interview
InterviewType(v, choice) ==
    CASE choice = T("1") -> T("behavioral")
      [] choice = T("2") -> T("technical")
      [] choice = T("3") -> T("general")
      [] choice = T("4") -> T("case study")
      [] choice = T("5") /\ v = "speech" -> T("leadership")
      [] OTHER -> T("general")

\* ---------------------------------------------------- question generation

\* A backend reply to a question prompt: generate_content raised, or
\* returned a response whose .text is the given raw text.
QExc == [kind |-> "exc"]
QText(raw) == [kind |-> "text", text |-> raw]

\* What one generate_question call did: where the returned text came from
\* (bank / backend / regen / kept / generic), how many backend calls it
\* made, whether the first cleaned text was already in asked_questions, and
\* whether the returned text was in asked_questions before the call.
GenInfo(src, calls, dup, repeated) ==
    [src |-> src, calls |-> calls, dup |-> dup, repeated |-> repeated]

GenResult(q, asked, info) == [question |-> q, asked |-> asked, gen |-> info]

\* A faulty bank path: on exhaustion the history is cleared after the
\* selected question was added, not before.
BankQuestionClearsLast(type, asked, r) ==
    LET questions == FallbackBank(type)
        unused == Without(questions, asked)
        exhausted == unused = <<>>
        available == IF exhausted THEN Prefix(questions, ResetSlice) ELSE unused
        selected == Choice(available, r)
    IN GenResult(selected, IF exhausted THEN {} ELSE asked \cup {selected},
                 GenInfo("bank", 0, FALSE, selected \in asked))

\* A faulty bank path: the questions already asked are not filtered out.
BankQuestionUnfiltered(type, asked, r) ==
    LET questions == FallbackBank(type)
        selected == Choice(questions, r)
    IN GenResult(selected, asked \cup {selected},
                 GenInfo("bank", 0, FALSE, selected \in asked))

\* Interviewer2.generate_question, backend absent: the category bank
BankQuestion(type, asked, r) ==
    LET questions == FallbackBank(type)
        unused == Without(questions, asked)
        exhausted == unused = <<>>
        available == IF exhausted THEN Prefix(questions, ResetSlice) ELSE unused
        base == IF exhausted THEN {} ELSE asked
        selected == Choice(available, r)
    IN GenResult(selected, base \cup {selected},
                 GenInfo("bank", 0, FALSE, selected \in asked))

\* Interviewer2.generate_question, the except branch: the generic list
RECURSIVE FirstUnused(_, _)
FirstUnused(q, asked) ==
    IF q = <<>> THEN <<>>
    ELSE IF Head(q) \notin asked THEN <<Head(q)>>
    ELSE FirstUnused(Tail(q), asked)

\* A faulty except branch: a category bank in place of the generic list.
GenericFromCategoryBank(asked, calls) == BankQuestion(T("behavioral"), asked, 0)

\* A faulty except branch: when all five are used the first one is returned
\* without clearing the history.
GenericWithoutClear(asked, calls) ==
    LET hit == FirstUnused(GenericFallbacks, asked)
    IN IF hit # <<>>
       THEN GenResult(hit[1], asked \cup {hit[1]},
                      GenInfo("generic", calls, FALSE, FALSE))
       ELSE GenResult(GenericFallbacks[1], asked,
                      GenInfo("generic", calls, FALSE, TRUE))

GenericQuestion(asked, calls) ==
    LET hit == FirstUnused(GenericFallbacks, asked)
    IN IF hit # <<>>
       THEN GenResult(hit[1], asked \cup {hit[1]},
                      GenInfo("generic", calls, FALSE, FALSE))
       ELSE GenResult(GenericFallbacks[1], {GenericFallbacks[1]},
                      GenInfo("generic", calls, FALSE, TRUE))

\* Interviewer2.generate_question with a backend: first reply, and the reply
\* to the regeneration prompt when the first text is a duplicate
BackendQuestion(asked, first, second) ==
    IF first.kind = "exc" \/ first.text = T("")
    THEN GenericQuestion(asked, 1)
    ELSE LET question == CleanQuestion(first.text)
         IN IF question = T("") \/ TextLen(question) < MinQuestionLen
            THEN GenericQuestion(asked, 1)
            ELSE IF question \in asked
            THEN IF second.kind = "text" /\ second.text # T("")
                 THEN LET again == CleanQuestion(second.text)
                      IN GenResult(again, asked \cup {again},
                                   GenInfo("regen", 2, TRUE, again \in asked))
                 ELSE GenResult(question, asked \cup {question},
                                GenInfo("kept", 2, TRUE, TRUE))
            ELSE GenResult(question, asked \cup {question},
                           GenInfo("backend", 1, FALSE, FALSE))

\* A faulty Interviewer2.generate_question: the backend is called without
\* testing self.model.
GenerateQuestionIgnoresModel(m, type, asked, r, first, second) ==
    BackendQuestion(asked, first, second)

\* Interviewer2.generate_question
GenerateQuestionText(m, type, asked, r, first, second) ==
    IF m = "none" THEN BankQuestion(type, asked, r)
    ELSE BackendQuestion(asked, first, second)

\* InterviewerSpeech.generate_question: no question history is kept
GenerateQuestionSpeech(m, asked, r, first) ==
    IF m = "none"
    THEN GenResult(Choice(SpeechFallbacks, r), asked,
                   GenInfo("bank", 0, FALSE, FALSE))
    ELSE IF first.kind = "exc"
    THEN GenResult(Choice(SpeechErrorFallbacks, r), asked,
                   GenInfo("generic", 1, FALSE, FALSE))
    ELSE GenResult(Strip(first.text), asked,
                   GenInfo("backend", 1, FALSE, FALSE))

\* ------------------------------------------------------ answer analysis

\* A backend reply to an analysis prompt: generate_content raised ("exc"),
\* the response text was empty ("empty"), json.loads rejected the text
\* ("garbage"), or json.loads returned the value val ("json").
AExc == [kind |-> "exc"]
AEmpty == [kind |-> "empty"]
AGarbage == [kind |-> "garbage"]
AJson(val) == [kind |-> "json", val |-> val]

Analysis(feedback, score, strengths, improvements) ==
    Obj([feedback |-> Str(feedback), score |-> Num(score),
         strengths |-> List(strengths), improvements |-> List(improvements),
         follow_up |-> Null])

\* fallback_analyses of Interviewer2.analyze_response (backend absent)
FallbackAnalyses == <<
    Analysis("Great answer! You provided good detail and structure.", 8,
             <<"Clear communication", "Good examples">>,
             <<"Consider adding more specific metrics or outcomes">>),
    Analysis("Excellent response! You demonstrated strong problem-solving skills.", 7,
             <<"Logical thinking", "Practical approach">>,
             <<"Try to quantify your impact where possible">>),
    Analysis("Well done! Your answer shows good self-awareness and growth mindset.", 9,
             <<"Self-reflection", "Learning orientation">>,
             <<"Consider adding more technical details">>) >>

\* fallback_analyses of Interviewer2._get_fallback_analysis
ApiFallbackAnalyses == <<
    Analysis("Thank you for your detailed response! You provided good structure and examples.", 8,
             <<"Clear communication", "Good examples">>,
             <<"Consider adding more specific metrics or outcomes">>),
    Analysis("Excellent response! You demonstrated strong problem-solving skills and clear thinking.", 7,
             <<"Logical thinking", "Practical approach">>,
             <<"Try to quantify your impact where possible">>),
    Analysis("Well done! Your answer shows good self-awareness and a growth mindset.", 9,
             <<"Self-reflection", "Learning orientation">>,
             <<"Consider adding more technical details">>) >>

\* Interviewer2._get_fallback_analysis
GetFallbackAnalysis(r) == Choice(ApiFallbackAnalyses, r)

\* the dict InterviewerSpeech.analyze_response returns with the backend
\* absent; its score is random.randint(6, 9)
SpeechAbsentAnalysis(r) ==
    Obj([feedback |-> Str("API not available. Great answer!"),
         score |-> Num(6 + (r % 4)),
         strengths |-> List(<<"Good communication", "Clear thinking">>),
         improvements |-> List(<<"Consider more specific examples">>),
         follow_up |-> Null])

\* the dict of the except branch of InterviewerSpeech.analyze_response
SpeechErrorAnalysis ==
    Obj([feedback |-> Str("Thank you for your detailed response!"),
         score |-> Num(7),
         strengths |-> List(<<"Clear communication">>),
         improvements |-> List(<<"Consider adding more specific examples">>),
         follow_up |-> Null,
         key_insights |-> List(<<"Shows good thinking">>)])

RequiredFields == <<"feedback", "score", "strengths", "improvements">>

\* A faulty default: empty text for a missing feedback.
FieldDefaultEmptyText(field) ==
    IF field = "feedback" THEN Str("")
    ELSE IF field \in {"strengths", "improvements"} THEN List(<<>>)
    ELSE Num(0)

\* the value the validation loop of Interviewer2.analyze_response assigns
FieldDefault(field) ==
    IF field = "feedback" THEN Str("Not provided")
    ELSE IF field \in {"strengths", "improvements"} THEN List(<<>>)
    ELSE Num(0)

\* the validation loop on a dict: every missing required field is filled
FillMissing(val) ==
    LET keys == DOMAIN val.f \cup SeqToSet(RequiredFields)
    IN Obj([k \in keys |-> IF k \in DOMAIN val.f THEN val.f[k]
                           ELSE FieldDefault(k)])

\* field in analysis, as Python evaluates it; "error" is a TypeError
HasField(val, field) ==
    CASE val.t = "obj"  -> IF field \in DOMAIN val.f THEN "yes" ELSE "no"
      [] val.t = "list" -> IF Str(field) \in SeqToSet(val.items) THEN "yes" ELSE "no"
      [] val.t = "str"  -> IF Contains(val.s, T(field)) THEN "yes" ELSE "no"
      [] OTHER -> "error"

\* the validation loop of Interviewer2.analyze_response: a dict is filled;
\* on any other value the first missing field raises TypeError (item
\* assignment, or the membership test itself), which the except branch
\* turns into a fallback analysis
ValidateAnalysis(val, r) ==
    IF val.t = "obj" THEN FillMissing(val)
    ELSE IF \A i \in 1..Len(RequiredFields) : HasField(val, RequiredFields[i]) = "yes"
    THEN val
    ELSE GetFallbackAnalysis(r)

\* sum() over the scores raises TypeError unless every score is a number
ScoresSummable(turns) == \A i \in 1..Len(turns) : turns[i].score.t = "num"

RECURSIVE SumScores(_)
SumScores(turns) ==
    IF turns = <<>> THEN 0 ELSE Head(turns).score.n + SumScores(Tail(turns))

Returned(val) == [raised |-> "", value |-> val]
Raised(exc) == [raised |-> exc, value |-> Null]

\* A faulty Interviewer2.analyze_response: with the backend absent it draws
\* from the pool of _get_fallback_analysis.
AnalyzeAbsentFromApiPool(m, turns, r, reply) ==
    IF m = "none" THEN Returned(GetFallbackAnalysis(r))
    ELSE IF turns # <<>> /\ ~ScoresSummable(Suffix(turns, 2))
    THEN Raised("TypeError")
    ELSE IF reply.kind # "json" THEN Returned(GetFallbackAnalysis(r))
    ELSE Returned(ValidateAnalysis(reply.val, r))

\* Interviewer2.analyze_response
AnalyzeResponseText(m, turns, r, reply) ==
    IF m = "none" THEN Returned(Choice(FallbackAnalyses, r))
    ELSE IF turns # <<>> /\ ~ScoresSummable(Suffix(turns, 2))
    THEN Raised("TypeError")
    ELSE IF reply.kind # "json" THEN Returned(GetFallbackAnalysis(r))
    ELSE Returned(ValidateAnalysis(reply.val, r))

\* InterviewerSpeech.analyze_response
AnalyzeResponseSpeech(m, r, reply) ==
    IF m = "none" THEN Returned(SpeechAbsentAnalysis(r))
    ELSE IF reply.kind # "json" THEN Returned(SpeechErrorAnalysis)
    ELSE Returned(reply.val)

AnalyzeResponse(v, m, turns, r, reply) ==
    IF v = "text" THEN AnalyzeResponseText(m, turns, r, reply)
    ELSE AnalyzeResponseSpeech(m, r, reply)

\* response_data of conduct_interview; follow_up is <<>> until attached,
\* then << the value analysis['follow_up'], the answer read >>
Turn(question, answer, analysis) ==
    [question |-> question, answer |-> answer, analysis |-> analysis,
     score |-> DictGet(analysis, "score", Num(0)), follow_up |-> <<>>]

\* -------------------------------------------------------- overall report

SummaryOnly(text) == Obj([summary |-> Str(text)])

\* generate_overall_analysis of both variants, called with Turns recorded
GenerateOverallAnalysis(v, m, turns, reply) ==
    IF m = "none" THEN Returned(SummaryOnly("Interview completed successfully!"))
    ELSE IF v = "speech" /\ ~ScoresSummable(turns) THEN Raised("TypeError")
    ELSE IF reply.kind = "json" THEN Returned(reply.val)
    ELSE IF v = "text"
    THEN Returned(SummaryOnly("Interview analysis unavailable due to technical issues."))
    ELSE Returned(Obj([summary |-> Str("Interview analysis unavailable due to technical issues."),
                       overall_score |-> [t |-> "mean", total |-> SumScores(turns),
                                          count |-> Len(turns)],
                       interview_readiness |-> Str("Assessment Complete")]))

\* ----------------------------------------------------------- user input

\* how a line reaches conduct_interview.  "typed": input(...).strip(), the
\* only way in Interviewer2 and in InterviewerSpeech while speech_mode is
\* off (and, with speech_mode on, after choice 2, an unknown choice, a
\* recording that yields nothing, or a transcript the user does not
\* confirm).  "spoken": choice 1 of get_user_input, raw is the transcript
\* listen_for_speech returned, confirmed with 'y' unless it is a command.
\* "switch": choice 3, which turns speech_mode off and reads a typed line.
Hows == {"typed", "spoken", "switch"}

\* the voice commands of get_user_input; any other transcript is returned
\* as the recogniser delivered it
Heard(speech_text) ==
    LET speech_lower == Lower(speech_text)
    IN IF Contains(speech_lower, T("next question")) \/ Contains(speech_lower, T("skip"))
       THEN T("next")
       ELSE IF Contains(speech_lower, T("end interview")) THEN T("end")
       ELSE IF Contains(speech_lower, T("get feedback"))
               \/ Contains(speech_lower, T("feedback"))
       THEN T("feedback")
       ELSE IF Contains(speech_lower, T("repeat question")) THEN T("repeat")
       ELSE speech_text

\* what get_user_input (Interviewer2: the input call of conduct_interview)
\* returns
ReadInput(how, raw) == IF how = "spoken" THEN Heard(raw) ELSE Strip(raw)

\* Faulty command chains, each dropping one thing conduct_interview does:
\* the lower() of the 'next' test, the 'repeat' branch, the length test.
ClassifyCaseSensitive(v, text, hasTurns) ==
    LET low == Lower(text)
    IN IF low = T("end") THEN "end"
       ELSE IF text = T("next") THEN "next"
       ELSE IF v = "speech" /\ low = T("repeat") THEN "repeat"
       ELSE IF low = T("feedback") /\ hasTurns THEN "feedback"
       ELSE IF v = "speech" /\ low = T("help") THEN "help"
       ELSE IF text = T("") THEN "rejected"
       ELSE IF v = "speech" /\ TextLen(Strip(text)) < MinAnswerLen THEN "rejected"
       ELSE "answer"

\* A faulty command chain: 'end' is recognised in lower case only.
ClassifyEndCaseSensitive(v, text, hasTurns) ==
    LET low == Lower(text)
    IN IF text = T("end") THEN "end"
       ELSE IF low = T("next") THEN "next"
       ELSE IF v = "speech" /\ low = T("repeat") THEN "repeat"
       ELSE IF low = T("feedback") /\ hasTurns THEN "feedback"
       ELSE IF v = "speech" /\ low = T("help") THEN "help"
       ELSE IF text = T("") THEN "rejected"
       ELSE IF v = "speech" /\ TextLen(Strip(text)) < MinAnswerLen THEN "rejected"
       ELSE "answer"

ClassifyWithoutLength(v, text, hasTurns) ==
    LET low == Lower(text)
    IN IF low = T("end") THEN "end"
       ELSE IF low = T("next") THEN "next"
       ELSE IF v = "speech" /\ low = T("repeat") THEN "repeat"
       ELSE IF low = T("feedback") /\ hasTurns THEN "feedback"
       ELSE IF v = "speech" /\ low = T("help") THEN "help"
       ELSE IF text = T("") THEN "rejected"
       ELSE "answer"

\* the if / elif chain of conduct_interview on the answer read
Classify(v, text, hasTurns) ==
    LET low == Lower(text)
    IN IF low = T("end") THEN "end"
       ELSE IF low = T("next") THEN "next"
       ELSE IF v = "speech" /\ low = T("repeat") THEN "repeat"
       ELSE IF low = T("feedback") /\ hasTurns THEN "feedback"
       ELSE IF v = "speech" /\ low = T("help") THEN "help"
       ELSE IF text = T("") THEN "rejected"
       ELSE IF v = "speech" /\ TextLen(Strip(text)) < MinAnswerLen THEN "rejected"
       ELSE "answer"

\* ------------------------------------------------------------ input sets

Variants == {"text", "speech"}
\* outcome of the probe of setup_gemini_api
Probes == {"ok", "empty", "exc"}
\* replies to "Enter your choice"
Choices == {T("1"), T("4")}
Draws == 0..(RandWidth - 1)

QuestionA == T("Describe your leadership style.")
QuestionB == T("What is your biggest weakness?")
\* the backend's text when it quotes QuestionA and ends it with U+2003 (em
\* space)
QuotedQuestionA == <<"  \"Describe your leadership style.\"", 8195, "">>

QReplies ==
    { QText(QuestionA), QText(QuestionB),
      QText(QuotedQuestionA),
      QExc, QText(T("")), QText(T("Why us?")) }

GoodAnalysis ==
    Obj([feedback |-> Str("Good structure."), score |-> Num(8),
         strengths |-> List(<<"Clarity">>), improvements |-> List(<<"Metrics">>),
         follow_up |-> Null])
ProbingAnalysis ==
    Obj([feedback |-> Str("Solid, but brief."), score |-> Num(6),
         strengths |-> List(<<"Honesty">>), improvements |-> List(<<"Detail">>),
         follow_up |-> Str("Can you give a concrete example?")])
InflatedAnalysis ==
    Obj([feedback |-> Str("Outstanding."), score |-> Num(11),
         strengths |-> List(<<"Depth">>), improvements |-> List(<<>>),
         follow_up |-> Null])
UnscoredAnalysis ==
    Obj([feedback |-> Str("Hard to rate."), score |-> Null,
         strengths |-> List(<<>>), improvements |-> List(<<>>),
         follow_up |-> Null])
PartialAnalysis == Obj([feedback |-> Str("Fine.")])
ScoreOnlyAnalysis == Obj([score |-> Num(5)])
FieldNameList == List(RequiredFields)
\* replies whose lists are not lists
NullStrengthsAnalysis ==
    Obj([feedback |-> Str("ok"), score |-> Num(5),
         strengths |-> Null, improvements |-> List(<<>>)])
InsightNumberAnalysis ==
    Obj([feedback |-> Str("Good structure."), score |-> Num(8),
         strengths |-> List(<<"Clarity">>), improvements |-> List(<<"Metrics">>),
         follow_up |-> Null, key_insights |-> Num(5)])

\* key_insights whose second item is no string, and whose third is not
InsightItemAnalysis ==
    Obj([feedback |-> Str("Good structure."), score |-> Num(8),
         strengths |-> List(<<"Clarity">>), improvements |-> List(<<"Metrics">>),
         follow_up |-> Null, key_insights |-> ListOf(<<Str("a"), Num(5)>>)])
LateItemAnalysis ==
    Obj([feedback |-> Str("Good structure."), score |-> Num(8),
         strengths |-> List(<<"Clarity">>), improvements |-> List(<<"Metrics">>),
         follow_up |-> Null,
         key_insights |-> ListOf(<<Str("a"), Str("b"), Num(5)>>)])
\* a follow-up that is truthy and no string
NumberFollowUpAnalysis ==
    Obj([feedback |-> Str("Good structure."), score |-> Num(8),
         strengths |-> List(<<"Clarity">>), improvements |-> List(<<"Metrics">>),
         follow_up |-> Num(7)])

AReplies ==
    { AJson(GoodAnalysis), AJson(ProbingAnalysis),
      AExc, AEmpty, AGarbage, AJson(InflatedAnalysis),
      AJson(UnscoredAnalysis), AJson(PartialAnalysis),
      AJson(FieldNameList), AJson(Num(5)), AJson(ScoreOnlyAnalysis),
      AJson(NullStrengthsAnalysis), AJson(InsightNumberAnalysis),
      AJson(InsightItemAnalysis), AJson(LateItemAnalysis),
      AJson(NumberFollowUpAnalysis) }

GoodOverall ==
    Obj([overall_score |-> Num(7), summary |-> Str("A steady performance."),
         interview_readiness |-> Str("Needs Practice")])

NumberStrengthsOverall ==
    Obj([summary |-> Str("ok"), top_strengths |-> Num(5)])

OReplies ==
    { AJson(GoodOverall), AExc, AJson(List(<<>>)),
      AJson(NumberStrengthsOverall) }

LongAnswer == T("I led a migration project.")

\* a typed line that ends with U+2003 (em space)
EndEmSpace == <<" END", 8195, "">>
\* a typed line that starts with U+3000 (ideographic space) and whose last
\* letter is U+212A (Kelvin sign), the capital of k
FeedbackKelvin == <<"", 12288, "Feedbac", 8490, " ">>

AnswerInputs ==
    { LongAnswer, T("next"), T("NEXT"), T("end"), EndEmSpace,
      T("skip"), T("feedback"), T("Feedback"), T("repeat"), T("help"), T(""), T("abc") }

\* transcripts of the recogniser at the answer prompt
SpokenInputs ==
    { LongAnswer, T("Let us skip this one"), T("Please end interview"),
      T("get feedback"), T("repeat question"), T(" We shipped it early. ") }

FollowUpInputs == { T("It took two weeks."), T(""), T("next"), T("END"), FeedbackKelvin }
\* transcripts of the recogniser at the follow-up prompt
SpokenFollowUps == { T("It took two weeks."), T("I would skip that") }
ReadyInputs == { T("y"), T("n"), T("END") }
\* replies to "Enable speech input for answers? (y/n)"
SpeechChoices == { T("Y"), T("n") }
SaveInputs == { T("Y"), T("n") }

\* ------------------------------------------------------------------ state

VARIABLES
    variant,           \* which program runs: "text" or "speech"
    model,             \* self.model: "none" or "ai"
    interview_type,    \* self.interview_type
    speech_mode,       \* self.speech_mode (InterviewerSpeech; FALSE in Interviewer2)
    asked_questions,   \* self.asked_questions (Interviewer2 only)
    responses,         \* self.responses: the Turns
    question_count,    \* question_count of conduct_interview
    current_question,  \* question / current_question of conduct_interview
    response,          \* the text read at the answer prompt in this iteration
    pc,                \* where the session is
    gen,               \* what the last generate_question call did
    areply,            \* kind of the backend reply to this iteration's analysis
    error,             \* the exception that reached main() and where it rose
    issued,            \* every text generate_question has returned so far
    analyzed,          \* calls of analyze_response so far
    heard,             \* what the backend last replied to each kind of call
    report,            \* overall analysis and statistics of end_interview
    saved,             \* session records written
    save_choice,       \* save_choice of end_interview: the reply to the save prompt
    backend_calls,     \* generate_content calls made since setup_gemini_api
    follow_up,         \* follow_up of conduct_interview: the last follow-up answer read
    continue_choice,   \* continue_choice of conduct_interview in this iteration
    reads,             \* environment: reads at the answer prompt so far
    odd                \* environment: departures from the plain run so far

prog == << variant, model, interview_type, speech_mode, asked_questions,
           responses,
           question_count, current_question, response, pc, gen, areply,
           error, issued, analyzed, heard, report, saved, save_choice,
           backend_calls, follow_up, continue_choice >>

env == << reads, odd >>

vars == << prog, env >>

NoGen == GenInfo("none", 0, FALSE, FALSE)

\* no backend call of that kind was made (yet, or in this iteration)
NoReply == [kind |-> "none"]
NoneHeard == [probe |-> "none", question |-> NoReply, regen |-> NoReply,
              analysis |-> NoReply, overall |-> NoReply]

NoError == [exc |-> "", at |-> ""]
Error(exc, at) == [exc |-> exc, at |-> at]

\* AIInterviewBot.__init__ before setup_gemini_api
Init ==
    /\ variant \in Variants
    /\ model = "none"
    /\ interview_type = T("")
    /\ speech_mode = FALSE
    /\ asked_questions = {}
    /\ responses = <<>>
    /\ question_count = 0
    /\ current_question = T("")
    /\ response = T("")
    /\ pc = "init"
    /\ gen = NoGen
    /\ areply = "none"
    /\ error = NoError
    /\ issued = {}
    /\ analyzed = 0
    /\ heard = NoneHeard
    /\ report = Null
    /\ saved = 0
    /\ save_choice = T("")
    /\ backend_calls = 0
    /\ follow_up = T("")
    /\ continue_choice = T("")
    /\ reads = 0
    /\ odd = 0

MaxQuestions == IF variant = "text" THEN MaxQuestionsText ELSE MaxQuestionsSpeech

\* ------------------------------------------------------------------ setup

\* A faulty setup_gemini_api: the model is kept unless the probe raised.
SetupKeepsUnprobedModel(key, probe) ==
    /\ pc = "init"
    /\ model' = IF key /\ probe # "exc" THEN "ai" ELSE "none"
    /\ heard' = [heard EXCEPT !.probe = IF key THEN probe ELSE "nokey"]
    /\ pc' = "start"
    /\ UNCHANGED << variant, speech_mode, interview_type, asked_questions,
                    responses,
                    question_count, current_question, response, gen, areply,
                    error, issued, analyzed, report, saved,
                    save_choice, backend_calls, follow_up, continue_choice >>

\* setup_gemini_api: self.model is kept only when a key is configured and
\* the probe returns text
SetupGeminiApi(key, probe) ==
    /\ pc = "init"
    /\ model' = IF key /\ probe = "ok" THEN "ai" ELSE "none"
    /\ heard' = [heard EXCEPT !.probe = IF key THEN probe ELSE "nokey"]
    /\ pc' = "start"
    /\ UNCHANGED << variant, speech_mode, interview_type, asked_questions,
                    responses,
                    question_count, current_question, response, gen, areply,
                    error, issued, analyzed, report, saved,
                    save_choice, backend_calls, follow_up, continue_choice >>

\* start_interview; in InterviewerSpeech, when setup_speech_recognition left
\* a microphone (mic), the reply to "Enable speech input for answers?"
\* decides self.speech_mode
StartInterview(choice, mic, speech_choice) ==
    /\ pc = "start"
    /\ interview_type' = InterviewType(variant, Strip(choice))
    /\ speech_mode' = (variant = "speech" /\ mic /\ Lower(speech_choice) = T("y"))
    /\ pc' = "head"
    /\ UNCHANGED << variant, model, asked_questions, responses,
                    question_count, current_question, response, gen, areply,
                    error, issued, analyzed, heard, report, saved,
                    save_choice, backend_calls, follow_up, continue_choice >>

\* ------------------------------------------------------- conduct_interview

\* A faulty loop: the question limit is never tested.
LoopOrNever(count, place) == place

\* A faulty loop condition: one question too many.
LoopOrOneMore(count, place) == IF count <= MaxQuestions THEN place ELSE "end"

\* the while condition after question_count has become count: the loop body
\* runs again (from place) or conduct_interview goes on to end_interview
LoopOr(count, place) == IF count < MaxQuestions THEN place ELSE "end"

\* top of the loop body: generate and show the next question; response,
\* analysis and continue_choice of the iteration are not read yet
GenerateQuestion(r, first, second) ==
    /\ pc = "head"
    /\ question_count < MaxQuestions
    /\ LET res == IF variant = "text"
                  THEN GenerateQuestionText(model, interview_type,
                                            asked_questions, r, first, second)
                  ELSE GenerateQuestionSpeech(model, asked_questions, r, first)
       IN /\ current_question' = res.question
          /\ asked_questions' = res.asked
          /\ gen' = res.gen
          /\ issued' = issued \cup {res.question}
          /\ heard' = [heard EXCEPT
                          !.question = IF model = "none" THEN NoReply ELSE first,
                          !.regen = IF res.gen.calls = 2 THEN second ELSE NoReply,
                          !.analysis = NoReply]
          /\ backend_calls' = backend_calls + res.gen.calls
    /\ response' = T("")
    /\ continue_choice' = T("")
    /\ areply' = "none"
    /\ pc' = "prompt"
    /\ UNCHANGED << variant, speech_mode, model, interview_type, responses,
                    question_count,
                    error, analyzed, report, saved, save_choice,
                    follow_up >>

\* the lines each way of reading can carry at the answer prompt; a
\* transcript that is returned is not empty
AnswersBy(how) == IF how = "spoken" THEN SpokenInputs ELSE AnswerInputs

\* get_user_input reads as the guard of its first line allows: the spoken
\* choices exist only while speech_mode is on (which implies a microphone)
CanRead(how) == how = "typed" \/ (variant = "speech" /\ speech_mode)

\* self.speech_mode after the read: choice 3 turns it off
ModeAfter(how) == speech_mode /\ how # "switch"

\* get_user_input on every line the answer prompt can deliver
ReadOf == [how \in Hows |-> [raw \in AnswerInputs \cup SpokenInputs |->
             ReadInput(how, raw)]]

\* Classify on every line the answer prompt can deliver
TagOf == [v \in Variants |-> [how \in Hows |->
            [raw \in AnswerInputs \cup SpokenInputs |-> [hasTurns \in BOOLEAN |->
                Classify(v, ReadInput(how, raw), hasTurns)]]]]

Tag(how, raw) == TagOf[variant][how][raw][responses # <<>>]

\* 'end': break
InputEnd(how, raw) ==
    /\ pc = "prompt"
    /\ CanRead(how)
    /\ speech_mode' = ModeAfter(how)
    /\ Tag(how, raw) = "end"
    /\ response' = ReadOf[how][raw]
    /\ pc' = "end"
    /\ UNCHANGED << variant, model, interview_type, asked_questions, responses,
                    question_count, current_question, gen, areply,
                    error, issued, analyzed, heard, report, saved,
                    save_choice, backend_calls, follow_up, continue_choice >>

\* A faulty loop: 'next' goes on to another question without counting the
\* one it skips.
InputNextWithoutCount(how, raw) ==
    /\ pc = "prompt"
    /\ CanRead(how)
    /\ speech_mode' = ModeAfter(how)
    /\ Tag(how, raw) = "next"
    /\ response' = ReadOf[how][raw]
    /\ pc' = "head"
    /\ UNCHANGED << variant, model, interview_type, asked_questions, responses,
                    question_count, current_question, gen, areply, error,
                    issued, analyzed, heard, report, saved,
                    save_choice, backend_calls, follow_up, continue_choice >>

\* 'next': count the question and continue
InputNext(how, raw) ==
    /\ pc = "prompt"
    /\ CanRead(how)
    /\ speech_mode' = ModeAfter(how)
    /\ Tag(how, raw) = "next"
    /\ response' = ReadOf[how][raw]
    /\ question_count' = question_count + 1
    /\ pc' = LoopOr(question_count + 1, "head")
    /\ UNCHANGED << variant, model, interview_type, asked_questions, responses,
                    current_question, gen, areply, error, issued, analyzed, heard,
                    report, saved,
                    save_choice, backend_calls, follow_up, continue_choice >>

\* show_detailed_feedback: the loops over the strengths and the improvements
\* of the last Turn's analysis and, in InterviewerSpeech, over its
\* key_insights when they are truthy
FeedbackRaises(v, analysis) ==
    \/ ~Iterable(DictGet(analysis, "strengths", List(<<>>)))
    \/ ~Iterable(DictGet(analysis, "improvements", List(<<>>)))
    \/ /\ v = "speech"
       /\ Truthy(DictGet(analysis, "key_insights", Null))
       /\ ~Iterable(DictGet(analysis, "key_insights", Null))

\* 'repeat', 'feedback' with a Turn recorded, 'help', or rejected input:
\* continue without counting; the TypeError of show_detailed_feedback
\* leaves conduct_interview
InputIdle(how, raw) ==
    /\ pc = "prompt"
    /\ CanRead(how)
    /\ speech_mode' = ModeAfter(how)
    /\ Tag(how, raw) \in {"repeat", "feedback", "help", "rejected"}
    /\ response' = ReadOf[how][raw]
    /\ IF Tag(how, raw) = "feedback"
          /\ FeedbackRaises(variant, responses[Len(responses)].analysis)
       THEN /\ pc' = "crashed"
            /\ error' = Error("TypeError", "show_detailed_feedback")
       ELSE /\ pc' = "head"
            /\ error' = error
    /\ UNCHANGED << variant, model, interview_type, asked_questions, responses,
                    question_count, current_question, gen, areply,
                    issued, analyzed, heard, report, saved,
                    save_choice, backend_calls, follow_up, continue_choice >>

\* any other input is an answer: analyse it and record the Turn
\* InterviewerSpeech, after the Turn is appended: analysis['key_insights'][:2]
\* joined for display when the value is truthy; a number cannot be sliced, a
\* dict cannot be indexed by a slice, and join accepts strings only (the
\* characters of a string, the first two items of a list)
InsightsRaise(analysis) ==
    LET insights == DictGet(analysis, "key_insights", Null)
    IN /\ Truthy(insights)
       /\ \/ insights.t \notin {"list", "str"}
          \/ /\ insights.t = "list"
             /\ \E i \in 1..Len(Prefix(insights.items, 2)) :
                   insights.items[i].t # "str"

InputAnswer(how, raw, r, reply) ==
    /\ pc = "prompt"
    /\ CanRead(how)
    /\ speech_mode' = ModeAfter(how)
    /\ Tag(how, raw) = "answer"
    /\ response' = ReadOf[how][raw]
    /\ LET res == AnalyzeResponse(variant, model, responses, r, reply)
           called == model # "none" /\ res.raised = ""
       IN /\ areply' = IF called THEN reply.kind ELSE "none"
          /\ heard' = [heard EXCEPT !.analysis = IF called THEN reply ELSE NoReply]
          /\ backend_calls' = backend_calls + (IF called THEN 1 ELSE 0)
          /\ IF res.raised # ""
             THEN /\ pc' = "crashed"
                  /\ error' = Error(res.raised, "analyze_response")
                  /\ UNCHANGED << responses, question_count >>
             ELSE IF res.value.t # "obj"
             THEN /\ pc' = "crashed"
                  /\ error' = Error("AttributeError", "conduct_interview")
                  /\ UNCHANGED << responses, question_count >>
             ELSE /\ responses' = Append(responses,
                         Turn(current_question, ReadOf[how][raw], res.value))
                  /\ IF variant = "speech" /\ InsightsRaise(res.value)
                     THEN /\ pc' = "crashed"
                          /\ error' = Error("TypeError", "conduct_interview")
                          /\ question_count' = question_count
                     ELSE IF Truthy(DictGet(res.value, "follow_up", Null))
                     THEN /\ pc' = "followup"
                          /\ error' = error
                          /\ question_count' = question_count
                     ELSE /\ pc' = LoopOr(question_count + 1, "ready")
                          /\ error' = error
                          /\ question_count' = question_count + 1
    /\ analyzed' = analyzed + 1
    /\ UNCHANGED << variant, model, interview_type, asked_questions,
                    current_question, gen, issued, report, saved, save_choice,
                    follow_up, continue_choice >>

\* A faulty filter: the three words are recognised in lower case only.
KeepsFollowUpCaseSensitive(v, text) ==
    IF v = "text" THEN text # T("")
    ELSE text # T("") /\ text \notin {T("next"), T("end"), T("feedback")}

\* whether conduct_interview attaches the follow-up answer to the Turn
KeepsFollowUp(v, text) ==
    IF v = "text" THEN text # T("")
    ELSE text # T("") /\ Lower(text) \notin {T("next"), T("end"), T("feedback")}

\* the lines each way of reading can carry at the follow-up prompt
FollowUpsBy(how) == IF how = "spoken" THEN SpokenFollowUps ELSE FollowUpInputs

\* get_user_input on every line the follow-up prompt can deliver
FollowUpOf == [how \in Hows |-> [raw \in FollowUpInputs \cup SpokenFollowUps |->
                 ReadInput(how, raw)]]

\* KeepsFollowUp on every line the follow-up prompt can deliver
KeepsOf == [v \in Variants |-> [how \in Hows |->
              [raw \in FollowUpInputs \cup SpokenFollowUps |->
                  KeepsFollowUp(v, ReadInput(how, raw))]]]

\* A faulty follow-up read: the follow-up answer replaces the Turn's answer.
FollowUpOverwritesAnswer(how, raw) ==
    /\ pc = "followup"
    /\ CanRead(how)
    /\ speech_mode' = ModeAfter(how)
    /\ follow_up' = FollowUpOf[how][raw]
    /\ LET text == FollowUpOf[how][raw]
           n == Len(responses)
       IN responses' =
            IF KeepsFollowUp(variant, text)
            THEN [responses EXCEPT ![n].answer = text]
            ELSE responses
    /\ question_count' = question_count + 1
    /\ pc' = LoopOr(question_count + 1, "ready")
    /\ UNCHANGED << variant, model, interview_type, asked_questions,
                    current_question, response, gen, areply, error,
                    issued, analyzed, heard, report, saved,
                    save_choice, backend_calls,
                    continue_choice >>

\* A faulty follow-up read: the question is not counted after it.
FollowUpWithoutCount(how, raw) ==
    /\ pc = "followup"
    /\ CanRead(how)
    /\ speech_mode' = ModeAfter(how)
    /\ follow_up' = FollowUpOf[how][raw]
    /\ LET text == FollowUpOf[how][raw]
           n == Len(responses)
           last == responses[n]
       IN responses' =
            IF KeepsFollowUp(variant, text)
            THEN [responses EXCEPT ![n].follow_up =
                     << DictGet(last.analysis, "follow_up", Null), text >>]
            ELSE responses
    /\ question_count' = question_count
    /\ pc' = LoopOr(question_count + 1, "ready")
    /\ UNCHANGED << variant, model, interview_type, asked_questions,
                    current_question, response, gen, areply, error,
                    issued, analyzed, heard, report, saved,
                    save_choice, backend_calls,
                    continue_choice >>

\* the follow-up read after a Turn whose analysis proposes a follow-up
FollowUpInput(how, raw) ==
    /\ pc = "followup"
    /\ CanRead(how)
    /\ speech_mode' = ModeAfter(how)
    /\ follow_up' = FollowUpOf[how][raw]
    /\ LET text == FollowUpOf[how][raw]
           n == Len(responses)
           last == responses[n]
       IN responses' =
            IF KeepsOf[variant][how][raw]
            THEN [responses EXCEPT ![n].follow_up =
                     << DictGet(last.analysis, "follow_up", Null), text >>]
            ELSE responses
    /\ question_count' = question_count + 1
    /\ pc' = LoopOr(question_count + 1, "ready")
    /\ UNCHANGED << variant, model, interview_type, asked_questions,
                    current_question, response, gen, areply, error,
                    issued, analyzed, heard, report, saved,
                    save_choice, backend_calls,
                    continue_choice >>

\* A faulty ready prompt: 'n' leaves the loop as 'end' does.
ReadyChoiceStopsOnNo(raw) ==
    /\ pc = "ready"
    /\ continue_choice' = Lower(raw)
    /\ pc' = IF continue_choice' \in {T("end"), T("n")} THEN "end" ELSE "head"
    /\ UNCHANGED << variant, speech_mode, model, interview_type,
                    asked_questions, responses,
                    question_count, current_question, response, gen, areply,
                    error, issued, analyzed, heard, report, saved,
                    save_choice, backend_calls, follow_up >>

\* "Ready for question n? (y/n/end)"
ReadyChoice(raw) ==
    /\ pc = "ready"
    /\ continue_choice' = Lower(raw)
    /\ pc' = IF continue_choice' = T("end") THEN "end" ELSE "head"
    /\ UNCHANGED << variant, speech_mode, model, interview_type,
                    asked_questions, responses,
                    question_count, current_question, response, gen, areply,
                    error, issued, analyzed, heard, report, saved,
                    save_choice, backend_calls, follow_up >>

\* ----------------------------------------------------------- end_interview

Report(overall, turns) ==
    [t |-> "report", overall |-> overall,
     total |-> SumScores(turns), count |-> Len(turns)]

\* whether generate_overall_analysis reaches its generate_content call:
\* InterviewerSpeech sums the scores before its try block
OverallCalled(v, m, turns) ==
    /\ m # "none" /\ turns # <<>>
    /\ v = "speech" => ScoresSummable(turns)

\* the lists end_interview prints: each is looped over when its value is
\* truthy
ReportLists(v) ==
    {"top_strengths", "areas_for_improvement", "specific_recommendations",
     "next_steps"}
    \cup (IF v = "speech" THEN {"standout_moments", "red_flags"} ELSE {})

ReportRaises(v, overall) ==
    \E k \in ReportLists(v) :
        /\ Truthy(DictGet(overall, k, Null))
        /\ ~Iterable(DictGet(overall, k, Null))

\* end_interview up to the save prompt
EndInterview(reply) ==
    /\ pc = "end"
    /\ IF responses = <<>>
       THEN /\ pc' = "done"
            /\ UNCHANGED << report, error, heard, backend_calls >>
       ELSE LET res == GenerateOverallAnalysis(variant, model, responses, reply)
                called == OverallCalled(variant, model, responses)
            IN /\ heard' = [heard EXCEPT !.overall = IF called THEN reply ELSE NoReply]
               /\ backend_calls' = backend_calls + (IF called THEN 1 ELSE 0)
               /\ IF res.raised # ""
                  THEN /\ pc' = "crashed"
                       /\ error' = Error(res.raised, "generate_overall_analysis")
                       /\ report' = report
                  ELSE IF ~ScoresSummable(responses)
                  THEN /\ pc' = "crashed"
                       /\ error' = Error("TypeError", "end_interview")
                       /\ report' = report
                  ELSE IF res.value.t # "obj"
                  THEN /\ pc' = "crashed"
                       /\ error' = Error("AttributeError", "end_interview")
                       /\ report' = report
                  ELSE IF ReportRaises(variant, res.value)
                  THEN /\ pc' = "crashed"
                       /\ error' = Error("TypeError", "end_interview")
                       /\ report' = report
                  ELSE /\ pc' = "save"
                       /\ report' = Report(res.value, responses)
                       /\ error' = error
    /\ UNCHANGED << variant, speech_mode, model, interview_type,
                    asked_questions, responses,
                    question_count, current_question, response, gen, areply,
                    issued, analyzed, saved, save_choice,
                    follow_up, continue_choice >>

\* A faulty end_interview: the record is written whatever the reply is.
SaveWithoutAsking(raw, written) ==
    /\ pc = "save"
    /\ save_choice' = raw
    /\ saved' = IF written THEN saved + 1 ELSE saved
    /\ pc' = "done"
    /\ UNCHANGED << variant, speech_mode, model, interview_type,
                    asked_questions, responses,
                    question_count, current_question, response, gen, areply,
                    error, issued, analyzed, heard, report, backend_calls,
                    follow_up, continue_choice >>

\* the save prompt, and save_ai_session when the reply is 'y'; written tells
\* whether open() and json.dump() succeed, a failure is caught and printed
SaveChoice(raw, written) ==
    /\ pc = "save"
    /\ save_choice' = raw
    /\ saved' = IF Lower(raw) = T("y") /\ written THEN saved + 1 ELSE saved
    /\ pc' = "done"
    /\ UNCHANGED << variant, speech_mode, model, interview_type,
                    asked_questions, responses,
                    question_count, current_question, response, gen, areply,
                    error, issued, analyzed, heard, report, backend_calls,
                    follow_up, continue_choice >>

\* ---------------------------------------------------------- specifications

\* departures from the plain run; 'repeat' belongs to the plain run of
\* InterviewerSpeech, where it is a command, and 'feedback' to the plain run
\* once a Turn is recorded; turning speech input on is one departure, and
\* what is then heard is none; at the ready prompt 'n' is one, and so is a
\* save that fails
SOdd(mic, speech_choice) ==
    IF variant = "speech" /\ mic /\ Lower(speech_choice) = T("y") THEN 1 ELSE 0
QOdd(reply) == IF reply = QText(QuestionA) THEN 0 ELSE 1
AOdd(reply) == IF reply = AJson(GoodAnalysis) THEN 0 ELSE 1
OOdd(reply) == IF reply = AJson(GoodOverall) THEN 0 ELSE 1
IOdd(how, raw) ==
    IF how = "spoken" THEN 0
    ELSE IF raw \in {LongAnswer, T("next"), T("end")} THEN 0
    ELSE IF variant = "speech" /\ raw = T("repeat") THEN 0
    ELSE IF raw = T("feedback") /\ responses # <<>> THEN 0
    ELSE 1
DOdd(r) == IF r = 0 THEN 0 ELSE 1
ROdd(raw) == IF raw = T("n") THEN 1 ELSE 0
WOdd(raw, written) == IF Lower(raw) = T("y") /\ ~written THEN 1 ELSE 0

\* the backend replies and draws one generate_question call consumes
FirstReplies == IF model = "none" THEN {QExc} ELSE QReplies
CleanOf == [reply \in QReplies |->
              IF reply.kind = "text" THEN CleanQuestion(reply.text) ELSE T("")]
NeedsSecond(first) ==
    /\ variant = "text" /\ model # "none" /\ first.kind = "text"
    /\ first.text # T("")
    /\ TextLen(CleanOf[first]) >= MinQuestionLen
    /\ CleanOf[first] \in asked_questions
SecondReplies(first) == IF NeedsSecond(first) THEN QReplies ELSE {QExc}
QuestionDraws(first) ==
    IF model = "none" \/ (variant = "speech" /\ first.kind = "exc")
    THEN Draws ELSE {0}
GenOdd(r, first, second) ==
    DOdd(r) + (IF model = "none" THEN 0 ELSE QOdd(first))
            + (IF NeedsSecond(first) THEN QOdd(second) ELSE 0)

\* the backend reply and draw one analyze_response call consumes
AnalysisReplies == IF model = "none" THEN {AExc} ELSE AReplies
AnalysisOdd(r, reply) == DOdd(r) + (IF model = "none" THEN 0 ELSE AOdd(reply))
OverallReplies == IF model = "none" \/ responses = <<>> THEN {AExc} ELSE OReplies
OverallOdd(reply) == IF model = "none" \/ responses = <<>> THEN 0 ELSE OOdd(reply)

Spend(n) == odd + n <= MaxOdd /\ odd' = odd + n
Read == reads < MaxReads /\ reads' = reads + 1

\* Short sessions: every input and backend outcome, with at most MaxReads
\* reads at the answer prompt and at most MaxOdd departures from the plain
\* run.
Next ==
    \/ /\ pc = "init"
       /\ \E key \in BOOLEAN, probe \in Probes : SetupGeminiApi(key, probe)
       /\ UNCHANGED env
    \/ /\ pc = "start"
       /\ \E choice \in Choices, mic \in BOOLEAN, speech_choice \in SpeechChoices :
            /\ Spend(SOdd(mic, speech_choice))
            /\ StartInterview(choice, mic, speech_choice)
       /\ UNCHANGED reads
    \/ /\ pc = "head"
       /\ \E first \in FirstReplies :
            \E second \in SecondReplies(first), r \in QuestionDraws(first) :
               /\ Spend(GenOdd(r, first, second))
               /\ GenerateQuestion(r, first, second)
       /\ UNCHANGED reads
    \/ /\ pc = "prompt"
       /\ \E how \in Hows : \E raw \in AnswersBy(how) :
            Spend(IOdd(how, raw)) /\ InputEnd(how, raw)
       /\ UNCHANGED reads
    \/ /\ pc = "prompt"
       /\ Read
       /\ \E how \in Hows : \E raw \in AnswersBy(how) :
            Spend(IOdd(how, raw)) /\ InputNext(how, raw)
    \/ /\ pc = "prompt"
       /\ Read
       /\ \E how \in Hows : \E raw \in AnswersBy(how) :
            Spend(IOdd(how, raw)) /\ InputIdle(how, raw)
    \/ /\ pc = "prompt"
       /\ Read
       /\ \E how \in Hows, r \in Draws, reply \in AnalysisReplies :
            \E raw \in AnswersBy(how) :
               /\ Spend(IOdd(how, raw) + AnalysisOdd(r, reply))
               /\ InputAnswer(how, raw, r, reply)
    \/ /\ pc = "followup"
       /\ \E how \in Hows : \E raw \in FollowUpsBy(how) : FollowUpInput(how, raw)
       /\ UNCHANGED env
    \/ /\ pc = "ready"
       /\ \E raw \in ReadyInputs : Spend(ROdd(raw)) /\ ReadyChoice(raw)
       /\ UNCHANGED reads
    \/ /\ pc = "end"
       /\ \E reply \in OverallReplies :
            Spend(OverallOdd(reply)) /\ EndInterview(reply)
       /\ UNCHANGED reads
    \/ /\ pc = "save"
       /\ \E raw \in SaveInputs, written \in BOOLEAN :
            Spend(WOdd(raw, written)) /\ SaveChoice(raw, written)
       /\ UNCHANGED reads

Spec == Init /\ [][Next]_vars

\* Full sessions with a backend that never answers after setup: every
\* generate_content call of the session raises, the user answers every
\* question acceptably and never types 'end'.
FullDraws == IF question_count < FreeTurns THEN Draws ELSE {0}

NextFull ==
    \/ /\ pc = "init"
       /\ \E key \in BOOLEAN, probe \in Probes : SetupGeminiApi(key, probe)
       /\ UNCHANGED env
    \/ /\ pc = "start"
       /\ \E choice \in Choices : StartInterview(choice, FALSE, T("n"))
       /\ UNCHANGED env
    \/ /\ pc = "head"
       /\ \E r \in FullDraws : GenerateQuestion(r, QExc, QExc)
       /\ UNCHANGED env
    \/ /\ pc = "prompt"
       /\ \E r \in FullDraws : InputAnswer("typed", LongAnswer, r, AExc)
       /\ UNCHANGED env
    \/ /\ pc = "ready"
       /\ \E raw \in {T("y"), T("n")} : ReadyChoice(raw)
       /\ UNCHANGED env
    \/ /\ pc = "end"
       /\ EndInterview(AExc)
       /\ UNCHANGED env
    \/ /\ pc = "save"
       /\ \E raw \in SaveInputs, written \in BOOLEAN : SaveChoice(raw, written)
       /\ UNCHANGED env

FullSpec == Init /\ [][NextFull]_vars

\* Sessions that run to the question limit with a working or absent
\* backend.  The plain run: every question prompt fails at the backend, the
\* user answers each question and replies 'y' at the ready prompt, every
\* analysis reply is well-formed.  At most MaxOdd times per session the
\* backend returns a text to a question prompt, the analysis proposes a
\* follow-up, the user skips or types 'end', replies 'n' or 'END' at the
\* ready prompt, or a random draw is not the first outcome; during the first
\* FreeTurns questions the backend may also return one and the same question
\* text.
LongFirstReplies ==
    IF model = "none" THEN {QExc}
    ELSE {QExc, QText(QuestionA), QText(T("")), QText(T("Why us?"))}
LongSecondReplies(first) ==
    IF NeedsSecond(first) THEN {QText(QuestionA), QExc} ELSE {QExc}
LongGenOdd(r, first) ==
    DOdd(r) + (IF first = QExc THEN 0
               ELSE IF first = QText(QuestionA) /\ question_count < FreeTurns THEN 0
               ELSE 1)
LongAnalysisReplies ==
    IF model = "none" THEN {AExc}
    ELSE {AJson(GoodAnalysis), AJson(ProbingAnalysis)}

NextLong ==
    \/ /\ pc = "init"
       /\ \E key \in BOOLEAN, probe \in Probes : SetupGeminiApi(key, probe)
       /\ UNCHANGED env
    \/ /\ pc = "start"
       /\ \E choice \in Choices : StartInterview(choice, FALSE, T("n"))
       /\ UNCHANGED env
    \/ /\ pc = "head"
       /\ \E first \in LongFirstReplies :
            \E second \in LongSecondReplies(first), r \in QuestionDraws(first) :
               /\ Spend(LongGenOdd(r, first))
               /\ GenerateQuestion(r, first, second)
       /\ UNCHANGED reads
    \/ /\ pc = "prompt"
       /\ Spend(1)
       /\ InputNext("typed", T("next"))
       /\ UNCHANGED reads
    \/ /\ pc = "prompt"
       /\ Spend(1)
       /\ InputEnd("typed", T("end"))
       /\ UNCHANGED reads
    \/ /\ pc = "prompt"
       /\ \E reply \in LongAnalysisReplies, r \in Draws :
            /\ Spend(AnalysisOdd(r, reply))
            /\ InputAnswer("typed", LongAnswer, r, reply)
       /\ UNCHANGED reads
    \/ /\ pc = "followup"
       /\ FollowUpInput("typed", T("It took two weeks."))
       /\ UNCHANGED env
    \/ /\ pc = "ready"
       /\ \E raw \in ReadyInputs :
            Spend(IF raw = T("y") THEN 0 ELSE 1) /\ ReadyChoice(raw)
       /\ UNCHANGED reads
    \/ /\ pc = "end"
       /\ EndInterview(IF model = "none" THEN AExc ELSE AJson(GoodOverall))
       /\ UNCHANGED env
    \/ /\ pc = "save"
       /\ \E raw \in SaveInputs : SaveChoice(raw, TRUE)
       /\ UNCHANGED env

LongSpec == Init /\ [][NextLong]_vars

\* Sessions under the scheduling of conduct_interview.  The backend calls
\* are those of the sessions above and every random draw takes its first
\* outcome; at the answer
\* prompt the user may type 'next', 'end', an answer, or an input the loop
\* does not count ('repeat', 'help', 'feedback' after a Turn, an empty or
\* short line), after which the loop generates a question again.  In
\* InterviewerSpeech with the backend absent 'next', 'end' and the uncounted
\* inputs are unlimited, with 'y' at the ready prompt: the loop can go
\* round for ever.  Elsewhere every
\* round adds to asked_questions or to the backend calls, and 'next', 'end'
\* and the uncounted inputs are departures from the plain run.
IdleInputs == { T("repeat"), T("help"), T("feedback"), T(""), T("abc") }

\* the sessions whose state does not grow with the rounds of the loop
Unlimited == variant = "speech" /\ model = "none"

\* what an input at the answer prompt costs, and what a reply of the
\* backend or at the ready prompt may cost: the unlimited sessions follow
\* the plain run otherwise
Typed == Spend(IF Unlimited THEN 0 ELSE 1)
Drawn(n) == Spend(n) /\ (Unlimited => n = 0)

LiveEnd ==
    /\ pc = "prompt"
    /\ Typed
    /\ InputEnd("typed", T("end"))
    /\ UNCHANGED reads

LiveNext ==
    /\ pc = "prompt"
    /\ Typed
    /\ InputNext("typed", T("next"))
    /\ UNCHANGED reads

LiveAnswer ==
    /\ pc = "prompt"
    /\ \E reply \in LongAnalysisReplies :
         /\ Drawn(AnalysisOdd(0, reply))
         /\ InputAnswer("typed", LongAnswer, 0, reply)
    /\ UNCHANGED reads

LiveIdle ==
    /\ pc = "prompt"
    /\ Typed
    /\ \E raw \in IdleInputs : InputIdle("typed", raw)
    /\ UNCHANGED reads

\* the inputs that are counted or end the loop
LiveConsume == LiveEnd \/ LiveNext \/ LiveAnswer

LiveSetup ==
    /\ pc = "init"
    /\ \E key \in BOOLEAN, probe \in Probes : SetupGeminiApi(key, probe)
    /\ UNCHANGED env

LiveStart ==
    /\ pc = "start"
    /\ \E choice \in Choices : StartInterview(choice, FALSE, T("n"))
    /\ UNCHANGED env

LiveQuestion ==
    /\ pc = "head"
    /\ \E first \in LongFirstReplies :
         \E second \in LongSecondReplies(first) :
            /\ Drawn(LongGenOdd(0, first))
            /\ GenerateQuestion(0, first, second)
    /\ UNCHANGED reads

LiveFollowUp ==
    /\ pc = "followup"
    /\ FollowUpInput("typed", T("It took two weeks."))
    /\ UNCHANGED env

LiveReady ==
    /\ pc = "ready"
    /\ \E raw \in ReadyInputs :
         Drawn(IF raw = T("y") THEN 0 ELSE 1) /\ ReadyChoice(raw)
    /\ UNCHANGED reads

LiveReport ==
    /\ pc = "end"
    /\ EndInterview(IF model = "none" THEN AExc ELSE AJson(GoodOverall))
    /\ UNCHANGED env

LiveSave ==
    /\ pc = "save"
    /\ \E raw \in SaveInputs : SaveChoice(raw, TRUE)
    /\ UNCHANGED env

NextLive ==
    \/ LiveSetup
    \/ LiveStart
    \/ LiveQuestion
    \/ LiveEnd
    \/ LiveNext
    \/ LiveAnswer
    \/ LiveIdle
    \/ LiveFollowUp
    \/ LiveReady
    \/ LiveReport
    \/ LiveSave

\* Every statement of the program completes (each backend call returns or
\* raises) and every prompt is answered: a step that stays possible is
\* taken.  The user types a counted input or 'end' at the answer prompt
\* again and again: the prompt comes back after every uncounted input, so
\* this is strong fairness of LiveConsume.
LiveSpec ==
    Init /\ [][NextLive]_vars /\ WF_vars(NextLive) /\ SF_vars(LiveConsume)

\* ------------------------------------------------------------- properties

LastTurn == responses[Len(responses)]

\* the questions generate_question takes from static lists
BankQuestions(type) == SeqToSet(FallbackBank(type)) \cup SeqToSet(GenericFallbacks)

\* C1: in the text variant no two Turns of a session carry the same question
\* text, unless every question of the static fallback bank of the active
\* category has been issued in the session.
C1_NoRepeatedQuestion ==
    variant = "text" =>
        \A i, j \in 1..Len(responses) :
            (i < j /\ responses[i].question = responses[j].question)
                => SeqToSet(FallbackBank(interview_type)) \subseteq issued

\* C2: when the first generated question is already in asked_questions,
\* generate_question makes exactly one regeneration call, and when that call
\* collides again, fails or returns nothing, the question returned is one of
\* the static fallback questions, not the colliding text, and asked_questions
\* holds it.
C2_RegenerationFallsBack ==
    (variant = "text" /\ gen.dup) =>
        /\ gen.calls = 2
        /\ (gen.src = "kept" \/ gen.repeated) =>
              /\ current_question \in BankQuestions(interview_type)
              /\ current_question \in asked_questions

\* C3: with the backend absent (also when its setup probe fails), acceptable
\* answers and no 'end', the session never aborts, every question yields a
\* Turn, conduct_interview leaves the loop exactly when the maximum number of
\* questions (10 text, 12 speech) is reached, and end_interview then produces
\* a report with a non-empty summary over that many scores.
C3_FullFallbackSession ==
    model = "none" =>
        /\ pc # "crashed" /\ error = NoError
        /\ question_count = Len(responses)
        /\ (pc \in {"end", "save", "done"}) <=> (question_count = MaxQuestions)
        /\ pc \in {"save", "done"} =>
              /\ report # Null
              /\ Truthy(DictGet(report.overall, "summary", Null))
              /\ report.count = MaxQuestions
              /\ report.total = SumScores(responses)

C3_Reached ==
    /\ model = "none" /\ variant = "speech" /\ pc = "done"
    /\ Len(responses) = MaxQuestionsSpeech
    /\ report # Null

\* C4: analyze_response never makes the questioning fail: whatever the
\* backend returns, no exception leaves analyze_response or the recording of
\* the Turn, and every call of analyze_response is followed by its Turn.
C4_AnalysisNeverAborts ==
    /\ error.at \notin {"analyze_response", "conduct_interview"}
    /\ analyzed = Len(responses)

\* C5: after analysis text that cannot be parsed, the Turn carries the
\* degraded default: score 0, no strengths, no improvements, some feedback.
C5_DegradedDefault ==
    (areply = "garbage" /\ responses # <<>>) =>
        /\ DictGet(LastTurn.analysis, "score", Null) = Num(0)
        /\ DictGet(LastTurn.analysis, "strengths", Null) = List(<<>>)
        /\ DictGet(LastTurn.analysis, "improvements", Null) = List(<<>>)
        /\ Truthy(DictGet(LastTurn.analysis, "feedback", Null))

\* C6: the score of every Turn is an integer from 0 to 10, whatever the
\* backend put in the analysis.
C6_ScoreInRange ==
    \A i \in 1..Len(responses) :
        /\ responses[i].score.t = "num"
        /\ responses[i].score.n \in 0..10

\* C7: 'feedback' (in any case) typed while no Turn is recorded does
\* nothing: no Turn is appended, the counter keeps its value and
\* analyze_response is not called.
C7_FeedbackWithoutTurns ==
    [][(pc = "prompt" /\ responses = <<>> /\ Lower(response') = T("feedback")) =>
          /\ responses' = responses
          /\ question_count' = question_count
          /\ analyzed' = analyzed]_vars

\* C8: 'repeat' at the answer prompt, in either variant and at any point of
\* the session, leaves asked_questions, the counter and the Turns as they
\* are.
C8_RepeatChangesNothing ==
    [][(pc = "prompt" /\ Lower(response') = T("repeat")) =>
          UNCHANGED << asked_questions, question_count, responses >>]_vars

\* C9: 'next' (in any case) at the answer prompt adds exactly one to the
\* counter and appends no Turn, in both variants; nothing is analysed, so a
\* skipped question adds no score.
C9_NextCountsWithoutTurn ==
    [][(pc = "prompt" /\ Lower(response') = T("next")) =>
          /\ question_count' = question_count + 1
          /\ responses' = responses
          /\ analyzed' = analyzed]_vars

C9_Reached ==
    /\ pc = "head" /\ response = T("NEXT")
    /\ responses # <<>>
    /\ question_count = Len(responses) + 1

\* C10 as stated: in both variants no Turn has an answer shorter than 5
\* characters.
C10_NoShortAnswer ==
    \A i \in 1..Len(responses) : TextLen(responses[i].answer) >= MinAnswerLen

\* C10: empty input is rejected by both variants, and InterviewerSpeech also
\* rejects input shorter than 5 characters: rejected input changes neither
\* the counter nor the Turns, the one short input that changes the counter is
\* the command 'next', and no Turn of InterviewerSpeech has an answer shorter
\* than 5 characters. Interviewer2 analyses any non-empty input that is no
\* command as an answer, whatever its length.
C10_ShortInputRejected ==
    [][/\ (pc = "prompt" /\ response' = T("")) =>
             UNCHANGED << question_count, responses, analyzed >>
       /\ (variant = "speech" /\ pc = "prompt"
              /\ TextLen(response') < MinAnswerLen /\ Lower(response') # T("next")) =>
             UNCHANGED << question_count, responses, analyzed >>
       /\ variant = "speech" =>
             \A i \in 1..Len(responses') :
                TextLen(responses'[i].answer) >= MinAnswerLen
       /\ (variant = "text" /\ pc = "prompt" /\ response' # T("")
              /\ TextLen(response') < MinAnswerLen
              /\ Lower(response') \notin {T("end"), T("next")}) =>
             analyzed' = analyzed + 1]_vars

C10_Reached ==
    /\ variant = "speech" /\ pc = "head" /\ response = T("abc")
    /\ responses # <<>>

\* C11: the session ends as soon as the counter reaches the maximum (10 in
\* Interviewer2, 12 in InterviewerSpeech): the step that brings
\* question_count to the maximum leads to end_interview, from then on no
\* question is generated and no answer is read or analysed, and neither the
\* counter nor the number of Turns ever exceeds the maximum.
C11_EndsAtMaximum ==
    [][/\ question_count' <= MaxQuestions
       /\ Len(responses') <= MaxQuestions
       /\ (question_count < MaxQuestions /\ question_count' = MaxQuestions) =>
             pc' = "end"
       /\ question_count = MaxQuestions =>
             UNCHANGED << question_count, responses, current_question,
                          asked_questions, issued, analyzed, response >>]_vars

C11_Reached ==
    /\ pc = "save" /\ variant = "text"
    /\ question_count = MaxQuestionsText
    /\ Len(responses) = MaxQuestionsText - 1

\* C12: whenever the session has ended, an overall report was built, also
\* when it ended with no Turn, and the average it reports is then 0.
C12_ReportAlwaysBuilt ==
    (pc \in {"save", "done"}
       \/ error.at \in {"end_interview", "generate_overall_analysis"}) =>
        /\ report # Null
        /\ responses = <<>> => (report.total = 0 /\ report.count = 0)

\* C13: the aggregate score of the final report is the arithmetic mean of the
\* scores of the recorded Turns and lies in 0..10, for the average
\* end_interview computes and for the overall score carried by the overall
\* analysis.
C13_AggregateIsMean ==
    report # Null =>
        /\ report.count = Len(responses)
        /\ report.total = SumScores(responses)
        /\ 0 <= report.total /\ report.total <= 10 * report.count
        /\ LET carried == DictGet(report.overall, "overall_score", Null)
           IN \/ carried.t = "num" /\ carried.n * report.count = report.total
              \/ carried.t = "mean" /\ carried.total = report.total
                                    /\ carried.count = report.count

\* C14: generate_question always returns usable text: in both variants and
\* on every path the question shown is non-empty, and text the backend
\* produced is never shown when, trimmed, it is shorter than 10 characters.
C14_UsableQuestion ==
    pc = "prompt" =>
        /\ current_question # T("")
        /\ gen.src \in {"backend", "regen", "kept"} =>
              TextLen(current_question) >= MinQuestionLen

\* C15: a reset of the question history in Interviewer2.generate_question
\* clears the exclusion of the exhausted bank's entries only: a question
\* text that is no entry of a static list, once in asked_questions, stays
\* there.
C15_ResetKeepsOtherQuestions ==
    [][variant = "text" =>
          (asked_questions \ BankQuestions(interview_type))
              \subseteq asked_questions']_vars

\* C16: with the backend absent, the question Interviewer2.generate_question
\* returns belongs to the bank of the category chosen in start_interview; a
\* session started with option 4 (case study) gets case-study questions.
C16_CategoryBank ==
    (variant = "text" /\ model = "none" /\ pc = "prompt"
        /\ interview_type = InterviewType("text", T("4"))) =>
            current_question \in SeqToSet(FallbackBank(T("case_study")))

\* whether Interviewer2.generate_question rejects the backend's first reply
RejectedReply(reply) ==
    reply.kind = "exc" \/ TextLen(CleanOf[reply]) < MinQuestionLen

\* C17 as stated: when the backend call of Interviewer2.generate_question
\* raises, returns no text or a text shorter than 10 characters, the question
\* returned is an entry of the bank of the session's category that is not
\* in asked_questions.
C17_BackendFailureUsesCategoryBank ==
    [][(variant = "text" /\ model = "ai" /\ pc = "head" /\ pc' = "prompt"
           /\ RejectedReply(heard'.question)) =>
          /\ current_question' \in SeqToSet(FallbackBank(interview_type))
          /\ current_question' \notin asked_questions]_vars

\* C17: in that case the question returned is the first entry of the
\* five-entry generic list of the except branch that is not in
\* asked_questions, and it is added to asked_questions; when all five are
\* in asked_questions, asked_questions is emptied and the first entry is
\* returned.  No regeneration call is made and the category bank is not used.
C17_BackendFailureUsesGenericList ==
    [][(variant = "text" /\ model = "ai" /\ pc = "head" /\ pc' = "prompt"
           /\ RejectedReply(heard'.question)) =>
          LET unused == Without(GenericFallbacks, asked_questions)
          IN /\ gen'.src = "generic" /\ gen'.calls = 1
             /\ IF unused # <<>>
                THEN /\ current_question' = unused[1]
                     /\ asked_questions' = asked_questions \cup {unused[1]}
                ELSE /\ current_question' = GenericFallbacks[1]
                     /\ asked_questions' = {GenericFallbacks[1]}]_vars

C17_Reached ==
    /\ variant = "text" /\ model = "ai" /\ pc = "prompt"
    /\ heard.question = QText(T("Why us?"))
    /\ current_question = GenericFallbacks[3]

\* C18: whether the session is AI-backed is decided once: self.model is set
\* by setup_gemini_api only, it is kept exactly when a key is configured and
\* the probe returned text, and no later step of the session, whatever the
\* backend does, changes whether it is None.
C18_ModelIsSticky ==
    [][/\ pc # "init" => model' = model
       /\ (pc = "init" /\ pc' # "init") =>
             /\ model = "none"
             /\ (model' = "ai") <=> (heard'.probe = "ok")
             /\ (model' = "none") <=> (heard'.probe \in {"nokey", "empty", "exc"})]_vars

C18_Reached ==
    /\ model = "ai" /\ heard.probe = "ok"
    /\ heard.analysis = AExc
    /\ pc = "save"

\* C19: in Interviewer2 the text generate_question returns is in
\* asked_questions when it returns, on every path, so the question of a
\* Turn is in asked_questions when the Turn is appended.
C19_ReturnedQuestionIsAsked ==
    [][variant = "text" =>
          /\ (pc = "head" /\ pc' = "prompt") =>
                current_question' \in asked_questions'
          /\ Len(responses') > Len(responses) =>
                responses'[Len(responses')].question \in asked_questions']_vars

C19_Reached ==
    /\ variant = "text" /\ model = "none" /\ pc = "ready"
    /\ gen.src = "bank" /\ gen.repeated
    /\ LastTurn.question = current_question
    /\ asked_questions = {current_question}

\* the JSON object of the analysis reply heard in this step, if it is one
HeardObject(h) == h.analysis.kind = "json" /\ h.analysis.val.t = "obj"

\* C20 as stated: when the analysis reply is a JSON object lacking required
\* keys, the analysis of the Turn is that object with every missing key
\* filled by its neutral default: empty text for feedback, an empty list for
\* strengths and improvements, 0 for score; the keys present are unchanged.
C20_MissingKeysNeutral ==
    [][(pc = "prompt" /\ HeardObject(heard')) =>
          LET val == heard'.analysis.val
              got == responses'[Len(responses')].analysis
              required == SeqToSet(RequiredFields)
          IN /\ Len(responses') = Len(responses) + 1
             /\ DOMAIN got.f = DOMAIN val.f \cup required
             /\ \A k \in DOMAIN val.f : got.f[k] = val.f[k]
             /\ \A k \in required \ DOMAIN val.f :
                   got.f[k] = IF k = "feedback" THEN Str("")
                              ELSE IF k = "score" THEN Num(0)
                              ELSE List(<<>>)]_vars

\* C20: Interviewer2.analyze_response returns the object with every missing
\* required key filled: 'Not provided' for feedback, an empty list for
\* strengths and improvements, 0 for score, the keys present unchanged;
\* InterviewerSpeech.analyze_response returns the object as parsed and fills
\* nothing.  In both the Turn is recorded with that analysis.
C20_MissingKeysFilled ==
    [][(pc = "prompt" /\ HeardObject(heard')) =>
          LET val == heard'.analysis.val
              got == responses'[Len(responses')].analysis
              required == SeqToSet(RequiredFields)
          IN /\ Len(responses') = Len(responses) + 1
             /\ \A k \in DOMAIN val.f : got.f[k] = val.f[k]
             /\ IF variant = "text"
                THEN /\ DOMAIN got.f = DOMAIN val.f \cup required
                     /\ \A k \in required \ DOMAIN val.f :
                           got.f[k] = IF k = "feedback" THEN Str("Not provided")
                                      ELSE IF k = "score" THEN Num(0)
                                      ELSE List(<<>>)
                ELSE got = val]_vars

C20_Reached ==
    /\ variant = "text" /\ pc = "ready"
    /\ heard.analysis = AJson(ScoreOnlyAnalysis)
    /\ DictGet(LastTurn.analysis, "feedback", Null) = Str("Not provided")
    /\ LastTurn.score = Num(5)

\* C21: self.responses is append-only and a recorded Turn changes only by
\* having a follow-up attached: over every step of a session each Turn
\* already recorded stays at its position with the same question, answer,
\* score and analysis.
C21_TurnsAreFrozen ==
    [][ /\ Len(responses') >= Len(responses)
        /\ \A i \in 1..Len(responses) :
              /\ responses'[i].question = responses[i].question
              /\ responses'[i].answer = responses[i].answer
              /\ responses'[i].score = responses[i].score
              /\ responses'[i].analysis = responses[i].analysis ]_vars

\* a follow-up was attached to the first Turn and a second Turn was recorded
\* after it
C21_Reached ==
    /\ Len(responses) >= 2
    /\ responses[1].follow_up # <<>>
    /\ pc \in {"save", "done"}

\* C22: a follow-up answer is read at most once per Turn and only when the
\* Turn's analysis proposes a follow-up question, it is never analysed, so
\* at every point of a session analyze_response has been called exactly once
\* per recorded Turn, and an attached follow-up holds the proposed question.
C22_OneAnalysisPerTurn ==
    /\ analyzed = Len(responses)
    /\ pc = "followup" => Truthy(DictGet(LastTurn.analysis, "follow_up", Null))
    /\ \A i \in 1..Len(responses) :
          responses[i].follow_up # <<>> =>
             responses[i].follow_up[1] =
                DictGet(responses[i].analysis, "follow_up", Null)

\* the analyses analyze_response can return with the backend absent
AbsentPool(v) ==
    IF v = "text" THEN SeqToSet(FallbackAnalyses)
    ELSE { SpeechAbsentAnalysis(r) : r \in 0..3 }

\* C23: with the backend absent every accepted answer becomes exactly one
\* Turn (three accepted answers and then 'end' give three Turns), the analysis
\* of every Turn is an entry of the fixed fallback pool, and the summary of
\* the overall analysis is not empty.
C23_AbsentBackendSession ==
    (model = "none" /\ pc # "init") =>
        /\ analyzed = Len(responses)
        /\ \A i \in 1..Len(responses) :
              responses[i].analysis \in AbsentPool(variant)
        /\ LET overall == GenerateOverallAnalysis(variant, model, responses, AExc)
           IN /\ overall.raised = ""
              /\ DictGet(overall.value, "summary", Null).t = "str"
              /\ DictGet(overall.value, "summary", Null).s # T("")
              /\ report # Null => report.overall = overall.value

\* behavioral session without backend: three answers, then 'end', reported
C23_Reached ==
    /\ model = "none" /\ interview_type = T("behavioral")
    /\ Len(responses) = 3 /\ analyzed = 3
    /\ Lower(response) = T("end")
    /\ pc = "save" /\ report # Null

\* C24: 'end' typed at the answer prompt in any letter case is recognised
\* before the input is treated as an answer: the step that reads it appends
\* no Turn, calls no analyze_response and leads to end_interview, and from
\* end_interview on no question is generated and no Turn is added.
C24_EndStopsTheSession ==
    [][ /\ (pc = "prompt" /\ Lower(response') = T("end")) =>
              /\ pc' = "end"
              /\ UNCHANGED << responses, analyzed, issued, question_count,
                              current_question, asked_questions >>
        /\ pc \in {"end", "save", "done"} =>
              /\ pc' \in {"save", "done", "crashed"}
              /\ UNCHANGED << responses, analyzed, issued, question_count,
                              current_question, asked_questions >> ]_vars

\* 'END' was typed at the second answer prompt and the session was reported
C24_Reached ==
    /\ response = T("END")
    /\ Len(responses) = 1 /\ analyzed = 1
    /\ pc = "save"

\* C25: 'skip' typed at the answer prompt, in any letter case and in both
\* variants, does what 'next' does: the counter goes up by one, no Turn is
\* recorded, nothing is analysed, and the loop goes on to the next question.
C25_SkipIsNext ==
    [][(pc = "prompt" /\ Lower(response') = T("skip")) =>
          /\ question_count' = question_count + 1
          /\ responses' = responses
          /\ analyzed' = analyzed
          /\ pc' \in {"head", "end"}]_vars

\* C26: in InterviewerSpeech the question shown at the answer prompt that
\* follows 'repeat' is the question shown before it: no question is
\* generated and the current question does not change.
C26_RepeatKeepsQuestion ==
    [][(variant = "speech" /\ pc = "head" /\ Lower(response) = T("repeat")) =>
          /\ current_question' = current_question
          /\ issued' = issued]_vars

\* C27: the session record is written only when the reply to the save prompt
\* at the end of the session is 'y', and at most once per session; a failure
\* while writing is reported without raising: the session ends normally and
\* the Turns and the overall analysis already computed stay as they are.
C27_SaveOnRequestOnly ==
    [][ /\ saved' # saved =>
              /\ pc = "save" /\ Lower(save_choice') = T("y")
              /\ saved = 0 /\ saved' = 1
        /\ pc = "save" =>
              /\ pc' = "done"
              /\ UNCHANGED << responses, report, error >> ]_vars

\* the user asked for the record, writing it failed, the session ended
\* normally with its report
C27_Reached ==
    /\ pc = "done" /\ Lower(save_choice) = T("y") /\ saved = 0
    /\ report # Null /\ error = NoError

\* C28: in InterviewerSpeech with the backend absent no two Turns of a
\* session carry the same question text while unused entries remain in the
\* ten-question fallback list.
C28_SpeechFallbackNoRepeat ==
    (variant = "speech" /\ model = "none" /\ pc # "init"
       /\ Len(responses) <= Len(SpeechFallbacks)) =>
        \A i, j \in 1..Len(responses) :
            i # j => responses[i].question # responses[j].question

\* a backend call for a question text that raised or returned no text
FailedQuestionReply(reply) ==
    reply.kind = "exc" \/ (reply.kind = "text" /\ reply.text = T(""))

\* the fallback questions of the variant
FallbackQuestions ==
    IF variant = "text" THEN BankQuestions(interview_type)
    ELSE SeqToSet(SpeechFallbacks) \cup SeqToSet(SpeechErrorFallbacks)

\* the fallback analyses a failed analysis call resolves to
ErrorAnalyses ==
    IF variant = "text" THEN SeqToSet(ApiFallbackAnalyses) ELSE {SpeechErrorAnalysis}

\* C29: there is no retry loop: one generate_question call makes at most two
\* backend calls (the generation and at most one regeneration), one
\* analyze_response call at most one, generate_overall_analysis at most one,
\* and every failed backend call resolves at once to fallback content.
C29_NoRetryLoop ==
    [][ LET made == backend_calls' - backend_calls
        IN /\ made >= 0
           /\ pc = "head" => made <= 2
           /\ pc = "prompt" => made <= 1
           /\ pc = "end" => made <= 1
           /\ pc \in {"start", "followup", "ready", "save"} => made = 0
           /\ (pc = "head" /\ FailedQuestionReply(heard'.question)) =>
                 made = 1 /\ current_question' \in FallbackQuestions
           /\ (pc = "head" /\ FailedQuestionReply(heard'.regen)) =>
                 made = 2 /\ current_question' \in FallbackQuestions
           /\ (pc = "prompt" /\ heard'.analysis.kind \in {"exc", "empty", "garbage"}) =>
                 /\ made = 1
                 /\ Len(responses') = Len(responses) + 1
                 /\ responses'[Len(responses')].analysis \in ErrorAnalyses
           /\ (pc = "end" /\ heard'.overall.kind \in {"exc", "empty", "garbage"}) =>
                 /\ made = 1
                 /\ pc' = "save"
                 /\ DictGet(report'.overall, "summary", Null) =
                       Str("Interview analysis unavailable due to technical issues.") ]_vars

\* C30: when self.model is None after setup (no credential, or the probe
\* failed), no backend call is made for the rest of the session, in both
\* variants: every question comes from the fallback questions, every analysis
\* from the fallback pool, and the overall analysis is the fixed summary.
C30_AbsentBackendNeverCalled ==
    (model = "none" /\ pc # "init") =>
        /\ backend_calls = 0
        /\ gen.calls = 0
        /\ heard.question = NoReply /\ heard.regen = NoReply
        /\ heard.analysis = NoReply /\ heard.overall = NoReply
        /\ issued \subseteq (IF variant = "text"
                             THEN SeqToSet(FallbackBank(interview_type))
                             ELSE SeqToSet(SpeechFallbacks))
        /\ \A i \in 1..Len(responses) :
              responses[i].analysis \in AbsentPool(variant)
        /\ report # Null =>
              report.overall = SummaryOnly("Interview completed successfully!")

\* the setup probe raised, a question was answered and the session reported
C30_Reached ==
    /\ model = "none" /\ heard.probe = "exc"
    /\ Len(responses) >= 1 /\ backend_calls = 0
    /\ pc = "save"

\* C31: at the head of every loop iteration, at the prompt between turns and
\* on entry to end_interview, len(self.responses) <= question_count <=
\* max_questions, in both variants; question_count never decreases and grows
\* by at most one per read at the answer prompt (at the read itself, or
\* after the follow-up of the answer read).
C31_CounterBounds ==
    [][ /\ question_count' \in {question_count, question_count + 1}
        /\ question_count' # question_count => pc \in {"prompt", "followup"}
        /\ (pc = "prompt" /\ pc' = "followup") => question_count' = question_count
        /\ pc' \in {"head", "ready", "end"} =>
              /\ Len(responses') <= question_count'
              /\ question_count' <= MaxQuestions ]_vars

\* a speech session entered end_interview at the limit of 12 with fewer
\* Turns than questions
C31_Reached ==
    /\ variant = "speech" /\ pc = "end"
    /\ question_count = MaxQuestionsSpeech
    /\ Len(responses) < MaxQuestionsSpeech

\* C32: in an Interviewer2 session with the backend absent asked_questions
\* is always a subset of the 8-entry bank of the session, the first 8
\* questions generated are pairwise distinct, and the 9th generation empties
\* asked_questions and returns one of the first 5 bank entries, a question
\* issued before.
C32_BankCycle ==
    [][(variant = "text" /\ model = "none" /\ pc = "head" /\ pc' = "prompt") =>
          LET bank == FallbackBank(interview_type)
              n == question_count + 1
          IN /\ Len(bank) = 8
             /\ asked_questions' \subseteq SeqToSet(bank)
             /\ Cardinality(asked_questions') <= 8
             /\ n <= 8 =>
                   /\ current_question' \notin issued
                   /\ Cardinality(issued') = n
                   /\ asked_questions' = issued'
             /\ n = 9 =>
                   /\ Cardinality(asked_questions) = 8
                   /\ current_question' \in SeqToSet(Prefix(bank, ResetSlice))
                   /\ current_question' \in issued
                   /\ asked_questions' = {current_question'} ]_vars

\* the 9th question of a session without backend: the bank was used up, the
\* history restarted with a question issued before
C32_Reached ==
    /\ variant = "text" /\ model = "none" /\ pc = "prompt"
    /\ question_count = 8
    /\ Cardinality(issued) = 8
    /\ asked_questions = {current_question}

\* C33: in an Interviewer2 session whose setup probe succeeds and whose
\* later backend calls all fail, successive generate_question calls return
\* the five generic fallback questions in list order, cyclically (the 6th is
\* the 1st, the 7th the 2nd), whatever the category of the session.
C33_GenericCycle ==
    [][(variant = "text" /\ model = "ai" /\ pc = "head" /\ pc' = "prompt") =>
          /\ Len(GenericFallbacks) = 5
          /\ gen'.src = "generic" /\ gen'.calls = 1
          /\ current_question' =
                GenericFallbacks[(question_count % Len(GenericFallbacks)) + 1] ]_vars

\* the 7th question of such a session is the 2nd generic question
C33_Reached ==
    /\ variant = "text" /\ model = "ai" /\ pc = "prompt"
    /\ question_count = 6
    /\ current_question = GenericFallbacks[2]
    /\ Cardinality(issued) = 5

\* C34: generate_question is called exactly once per read at the answer
\* prompt: the prompt is reached only from a generate_question call, and
\* every input that consumes no turn (empty or too short, 'feedback' with a
\* prior Turn, 'help', 'repeat') leads back to the loop head, where the next
\* step generates a fresh question; the question of a Turn is the one the
\* most recent generate_question call returned.
C34_OneQuestionPerRead ==
    [][ /\ pc' = "prompt" =>
              /\ pc = "head"
              /\ issued' = issued \cup {current_question'}
              /\ gen'.src # "none"
        /\ pc = "head" => pc' = "prompt"
        /\ current_question' # current_question => pc = "head"
        /\ (pc = "prompt"
              /\ Classify(variant, response', responses # <<>>)
                    \in {"repeat", "feedback", "help", "rejected"}) =>
              /\ pc' = "head"
              /\ question_count' = question_count
              /\ responses' = responses
        /\ Len(responses') > Len(responses) =>
              /\ pc = "prompt"
              /\ responses'[Len(responses')].question = current_question ]_vars

\* C35: in InterviewerSpeech a follow-up answer that is empty or is 'next',
\* 'end' or 'feedback' in any letter case is discarded: nothing is attached
\* to the Turn, the session neither ends nor skips because of it, and the
\* counter goes up by exactly one for the Turn; in Interviewer2 every
\* non-empty follow-up answer, those words included, is attached as read.
C35_FollowUpFilter ==
    [][ pc = "followup" =>
          LET n == Len(responses)
              text == follow_up'
              proposed == DictGet(responses[n].analysis, "follow_up", Null)
              command == Lower(text) \in {T("next"), T("end"), T("feedback")}
          IN /\ question_count' = question_count + 1
             /\ pc' = IF question_count' < MaxQuestions THEN "ready" ELSE "end"
             /\ Len(responses') = n
             /\ analyzed' = analyzed
             /\ responses'[n].follow_up =
                   IF text = T("") THEN <<>>
                   ELSE IF variant = "speech" /\ command THEN <<>>
                   ELSE << proposed, text >> ]_vars

\* InterviewerSpeech: 'Feedback' was read as the follow-up answer of the
\* first Turn; nothing was attached and the session is at the ready prompt
C35_Reached ==
    /\ variant = "speech" /\ pc = "ready"
    /\ follow_up = <<"Feedbac", 8490, "">>
    /\ question_count = 1 /\ Len(responses) = 1
    /\ responses[1].follow_up = <<>>

\* C36: end_interview is entered exactly once per session on every exit of
\* the loop that is not an exception: 'end' at the answer prompt, 'end' at
\* the ready prompt, or the counter reaching the maximum; the ready prompt
\* is never shown after the last turn, and every reply to it other than
\* 'end' continues the session.
C36_EndInterviewOnce ==
    [][ /\ pc' = "end" =>
              \/ pc = "prompt" /\ Lower(response') = T("end")
              \/ pc = "ready" /\ continue_choice' = T("end")
              \/ /\ pc \in {"prompt", "followup"}
                 /\ question_count = MaxQuestions - 1
                 /\ question_count' = MaxQuestions
        /\ (pc \in {"head", "prompt", "followup", "ready"}
              /\ pc' \notin {"head", "prompt", "followup", "ready"}) =>
              pc' \in {"end", "crashed"}
        /\ pc = "end" => pc' \in {"save", "done", "crashed"}
        /\ pc = "save" => pc' = "done"
        /\ pc \notin {"done", "crashed"}
        /\ pc' = "ready" => question_count' < MaxQuestions
        /\ pc = "ready" =>
              pc' = IF continue_choice' = T("end") THEN "end" ELSE "head" ]_vars

\* the tenth answer of an Interviewer2 session was recorded and end_interview
\* entered without a ready prompt in that iteration
C36_Reached ==
    /\ variant = "text" /\ pc = "end"
    /\ question_count = MaxQuestionsText
    /\ Len(responses) = MaxQuestionsText
    /\ continue_choice = T("")

\* C37: when every backend call returns or fails and the user types, again
\* and again, an accepted answer, 'next' or 'end' at the answer prompt,
\* conduct_interview leaves its loop: each 'next' and each accepted answer
\* (when its iteration completes, after the follow-up prompt if one is
\* shown) raises question_count by exactly one, 'end' leaves at once, and
\* question_count never exceeds max_questions, so that at most max_questions
\* such inputs are read before end_interview is entered (or an exception
\* leaves the session).  An uncounted input returns to the loop head, or
\* show_detailed_feedback raises; only a run of uncounted inputs without end
\* keeps the loop going.
C37_LoopTerminates ==
    /\ <>(pc \in {"end", "crashed"})
    /\ [](question_count <= MaxQuestions)
    /\ [][<<LiveNext>>_vars =>
             /\ question_count < MaxQuestions
             /\ question_count' = question_count + 1]_vars
    /\ [][<<LiveAnswer>>_vars =>
             /\ question_count < MaxQuestions
             /\ \/ question_count' = question_count + 1
                \/ pc' = "followup" /\ question_count' = question_count
                \/ pc' = "crashed"]_vars
    /\ [][pc = "followup" => question_count' = question_count + 1]_vars
    /\ [][<<LiveEnd>>_vars => pc' = "end"]_vars
    /\ [][<<LiveIdle>>_vars =>
             /\ question_count' = question_count
             /\ pc' \in {"head", "crashed"}]_vars

\* a session with the backend absent that generated eleven questions, one of
\* them after an uncounted input, and left the loop at the question limit
C37_Reached ==
    /\ model = "none" /\ variant = "text" /\ pc = "end"
    /\ question_count = MaxQuestionsText
    /\ Cardinality(issued) = 8
    /\ Cardinality(asked_questions) = 3

====
